---- MODULE Spec2Model ----
(***************************************************************************)
(* Verification model of the warehouse inward / transfer front end.        *)
(*                                                                         *)
(*   Spec       the transfer-in reconciliation view (TransferInPage):      *)
(*              React state, event handlers guarded by the conditions      *)
(*              under which their buttons are rendered, and the            *)
(*              asynchronous lookup / confirm requests in flight.          *)
(*   SpecMerge  mergePageResults of the new-inward page, run one           *)
(*              purchase-order entry per step over a bounded input.        *)
(*   SpecExtract  the PDF extraction flow of the new-inward page           *)
(*              (NewInwardPage): handleExtract with its upload and page    *)
(*              requests, and the SKU lookups it starts.                   *)
(*   SpecSubmit the multi-PO submission of the new-inward page             *)
(*              (handleSubmitMulti).                                       *)
(*                                                                         *)
(* JavaScript strings that the code trims or parses are sequences of       *)
(* one-character strings; arrays are sequences (index i of the code is     *)
(* position i + 1); objects used as maps are functions on their key set.   *)
(***************************************************************************)
EXTENDS Integers, Sequences, FiniteSets, Bags, TLC

VARIABLES
    \* ---- TransferInPage (transferIn/page.tsx) ----
    transferData,     \* useState<any>(null)
    boxesMatchMap,    \* Record<box id, boolean>
    linesMatchMap,    \* Record<line index, boolean>
    linesIssueMap,    \* Record<line index, {actual_qty, actual_total_weight, remarks}>
    issueOpenIndex,   \* number | null (NoIndex models null)
    issueForm,        \* {actual_qty, actual_total_weight, remarks} as typed
    loading,          \* shared busy flag of lookup and confirm
    inflight,         \* bag of the requests awaiting their response
    toast,            \* the toast most recently raised
    mounted,          \* the page component is mounted
    navScheduled,     \* the setTimeout(router.push) of a successful confirm is pending
    \* ---- mergePageResults (inward/new/page.tsx) ----
    pageResults,      \* the argument: a sequence of pages
    allPOs,           \* const allPOs: POExtractResponse[]
    seenPONumbers,    \* const seenPONumbers: Record<string, number>
    pageIdx,          \* position of the outer for..of
    poIdx,            \* position of the inner for..of
    branch,           \* the branch the last iteration took
    \* ---- NewInwardPage (inward/new/page.tsx) ----
    step,             \* "choose" | "upload" | "review" | "multi-po"
    file,             \* a PDF is selected (File | null)
    extracting,       \* useState(false)
    extractingRef,    \* useRef(false): the guard against double clicks
    extractError,     \* string | null ("" models null)
    extractionProgress, \* {phase, currentPage, totalPages} | null
    vendor,           \* useState("")
    poNumber,         \* useState("")
    articles,         \* ArticleFields[] of the single-PO review
    editablePOs,      \* EditablePO[] of the multi-PO review
    extractRun,       \* the handleExtract invocation: where it waits, its locals,
                      \* the pages it warned about on the console
    requests,         \* bag of the requests awaiting their response
    pagesRequested,   \* observation: the pages requested by the invocation, in order
    inwardMounted,    \* the page component is mounted
    settersAfterUnmount, \* observation: a state setter was called after unmount
    submitting,       \* useState(false)
    submitError,      \* string | null ("" models null)
    multiSubmitProgress, \* useState(0)
    submitRun,        \* the handleSubmitMulti invocation: where it waits, its locals
    createLog,        \* observation: the createInward requests sent, in order
    \* ---- HighPerformanceQRScanner (high-performance-qr-scanner.tsx) ----
    isMountedRef,     \* useRef(true): the component is mounted
    active,           \* `let active` of the init effect
    initPc,           \* where init() waits: "frame" | "starting" | "focus" | "done"
    scanner,          \* the QrScanner instance of `let scanner`: made, started, destroyed
    scannerRef,       \* scannerRef.current is not null
    hasScannedRef,    \* useRef(false)
    isCameraReady,    \* useState(false)
    error,            \* useState('')
    showManualEntry,  \* useState(false)
    manualBarcode,    \* useState(''), a sequence of characters
    decodePending,    \* a decode of a camera frame is on its way to the callback
    scanCalls,        \* observation: the calls of onScanSuccess, in order
    errorCalls,       \* observation: the number of calls of onScanError
    lateSets,         \* observation: what was set or called after unmount
    \* ---- useFormPersistence (hooks/useFormPersistence.ts) ----
    storage,          \* localStorage.getItem(key)
    formState,        \* the React state behind stateMap: field -> value
    rendered,         \* the values of the last render, which the effects close over
    isRestoredRef,    \* useRef(false)
    timers,           \* the setTimeout callbacks pending: time left, snapshot to write
    debounceRef,      \* the timer debounceRef.current names
    hookMounted,      \* the component using the hook is mounted
    sinceChange,      \* observation: ms since the state last changed, up to the delay
    persistSeen,      \* observation: the storage at mount, whether the user edited
                      \* or the draft was cleared since
    \* ---- useAuthStore (lib/stores/auth.ts) ----
    user,             \* User | null
    currentCompany,   \* Company | null
    currentCompanyAccess, \* CompanyAccess | null
    isAuthenticated,
    isLoading,
    accessToken,      \* string | null
    logins,           \* the login calls awaiting the response of fetch: their emails
    \* ---- NewInwardPage with label printing (unnamed/part_002) ----
    createdTxnNo,     \* useState<string | null>(null)
    printingBoxIdx,   \* useState<number | null>(null)
    labelSubmitting,  \* the submitting state of this page
    labelCalls,       \* the calls of handlePrintBox and handleSubmit at an await
    createsSent,      \* the transaction numbers of the createInward requests sent
    labelClock,       \* the time of the last click
    labelMounted,     \* the page has not navigated away
    \* ---- TransferInPage: the transfer number field ----
    transferNumber,   \* useState("")
    lookups           \* observation: the lookups in the order requested, and
                      \* how each one ended

transferVars == <<transferData, boxesMatchMap, linesMatchMap, linesIssueMap,
                  issueOpenIndex, issueForm, loading, inflight, toast,
                  mounted, navScheduled>>
mergeVars == <<pageResults, allPOs, seenPONumbers, pageIdx, poIdx, branch>>
extractVars == <<step, file, extracting, extractingRef, extractError,
                 extractionProgress, vendor, poNumber, articles, editablePOs,
                 extractRun, requests, pagesRequested, inwardMounted,
                 settersAfterUnmount>>
submitVars == <<submitting, submitError, multiSubmitProgress, submitRun, createLog>>
inwardVars == <<extractVars, submitVars>>
scannerVars == <<isMountedRef, active, initPc, scanner, scannerRef, hasScannedRef,
                 isCameraReady, error, showManualEntry, manualBarcode,
                 decodePending, scanCalls, errorCalls, lateSets>>
persistVars == <<storage, formState, rendered, isRestoredRef, timers, debounceRef,
                 hookMounted, sinceChange, persistSeen>>
authVars == <<user, currentCompany, currentCompanyAccess, isAuthenticated, isLoading,
              accessToken, logins>>
labelVars == <<createdTxnNo, printingBoxIdx, labelSubmitting, labelCalls, createsSent,
               labelClock, labelMounted>>
lookupVars == <<transferNumber, lookups>>
restVars == <<scannerVars, persistVars, authVars, labelVars, lookupVars>>
vars == <<transferVars, mergeVars, inwardVars, restVars>>

----------------------------------------------------------------------------
(* Bounds                                                                  *)

\* boxes of the largest transfer of the catalogue
MaxBoxes == 1
\* article lines of the largest transfer of the catalogue
MaxLines == 1
\* transfers known to the lookup collaborator
NumTransfers == 2
\* requests that may be awaiting a response at once
MaxInFlight == 2

----------------------------------------------------------------------------
(* JavaScript values                                                       *)

\* null / undefined
Null == [null |-> TRUE]

\* issueOpenIndex === null
NoIndex == -1

\* the empty object {}
EmptyMap == <<>>

WhiteSpace == {" "}

RECURSIVE TrimStart(_)
TrimStart(s) ==
    IF s # <<>> /\ Head(s) \in WhiteSpace THEN TrimStart(Tail(s)) ELSE s

RECURSIVE TrimEnd(_)
TrimEnd(s) ==
    IF s # <<>> /\ s[Len(s)] \in WhiteSpace
    THEN TrimEnd(SubSeq(s, 1, Len(s) - 1))
    ELSE s

\* String.prototype.trim
Trim(s) == TrimEnd(TrimStart(s))

Digits == {"0", "1", "2", "3", "4", "5", "6", "7", "8", "9"}

DigitVal(c) ==
    CASE c = "0" -> 0 [] c = "1" -> 1 [] c = "2" -> 2 [] c = "3" -> 3
      [] c = "4" -> 4 [] c = "5" -> 5 [] c = "6" -> 6 [] c = "7" -> 7
      [] c = "8" -> 8 [] c = "9" -> 9

DigitChar(d) ==
    CASE d = 0 -> "0" [] d = 1 -> "1" [] d = 2 -> "2" [] d = 3 -> "3"
      [] d = 4 -> "4" [] d = 5 -> "5" [] d = 6 -> "6" [] d = 7 -> "7"
      [] d = 8 -> "8" [] d = 9 -> "9"

\* the value of the longest prefix of digits of s, continuing from acc
RECURSIVE DigitPrefix(_, _)
DigitPrefix(s, acc) ==
    IF s # <<>> /\ Head(s) \in Digits
    THEN DigitPrefix(Tail(s), 10 * acc + DigitVal(Head(s)))
    ELSE acc

\* NaN is <<>>, the number n is <<n>>
NaN == <<>>
isNaN(r) == r = NaN

\* parseFloat on unsigned whole-number text: leading white space is skipped,
\* the longest prefix of digits is converted, anything after it is ignored,
\* and text that does not start with a digit yields NaN
parseFloat(s) ==
    LET t == TrimStart(s)
    IN  IF t # <<>> /\ Head(t) \in Digits THEN <<DigitPrefix(t, 0)>> ELSE NaN

\* String(n) for a natural number n
RECURSIVE NumToChars(_)
NumToChars(n) ==
    IF n < 10 THEN <<DigitChar(n)>>
    ELSE NumToChars(n \div 10) \o <<DigitChar(n % 10)>>

\* map[k] read as a boolean: a missing key is undefined, hence falsy
Truthy(map, k) == k \in DOMAIN map /\ map[k] # FALSE

\* {...map, [k]: v}
Put(map, k, v) == [x \in DOMAIN map \cup {k} |-> IF x = k THEN v ELSE map[x]]

\* const next = {...map}; delete next[k]
Delete(map, k) == [x \in DOMAIN map \ {k} |-> map[x]]

\* the bag b with one more / one fewer copy of the request r
Sent(b, r) == b (+) SetToBag({r})
Answered(b, r) == b (-) SetToBag({r})

----------------------------------------------------------------------------
(* The transfer lookup collaborator: a catalogue of outbound transfers     *)

Max(a, b) == IF a > b THEN a ELSE b

TransferNos == 1 .. NumTransfers

\* transfer 1 is the largest, each further one has a box and a line fewer
NumBoxesOf(t) == Max(0, MaxBoxes - (t - 1))
NumLinesOf(t) == Max(0, MaxLines - (t - 1))

\* the boxes of a transfer alternate between no article name and "Almonds"
BoxOf(t, k) ==
    [id |-> 10 * t + k,
     box_number |-> k,
     article |-> IF k % 2 = 1 THEN "" ELSE "Almonds"]

LineOf(t, k) ==
    [item_description |-> "Cashew",
     qty |-> 5,
     total_weight |-> 0]

TransferRecord(t) ==
    [id |-> t,
     transfer_no |-> NumToChars(t),
     boxes |-> [k \in 1 .. NumBoxesOf(t) |-> BoxOf(t, k)],
     lines |-> [k \in 1 .. NumLinesOf(t) |-> LineOf(t, k)]]

\* the number is on record
Known(no) == \E t \in TransferNos : NumToChars(t) = no

KnownTransfer(no) == TransferRecord(CHOOSE t \in TransferNos : NumToChars(t) = no)

\* what an operator may type or scan as a transfer number
TransferInputs ==
    {<<>>, <<" ">>, <<"9", "9">>} \cup {NumToChars(t) : t \in TransferNos}

\* what an operator may have typed into the three inputs of the issue form
\* (actual_qty and actual_total_weight are type="number" inputs, whose value
\* is numeric text or empty)
IssueForms ==
    {[actual_qty |-> <<>>, actual_total_weight |-> <<>>, remarks |-> <<"r">>],
     [actual_qty |-> <<>>, actual_total_weight |-> <<"1", "2">>, remarks |-> <<" ", "r">>]}

----------------------------------------------------------------------------
(* TransferInPage: derived state                                           *)

boxes == IF transferData = Null THEN <<>> ELSE transferData.boxes
lines == IF transferData = Null THEN <<>> ELSE transferData.lines
totalBoxes == Len(boxes)
totalLines == Len(lines)
totalItems == totalBoxes + totalLines

\* the indices i of lines.filter((_, i) => ...)
LineIndices == 0 .. (totalLines - 1)

BoxMatched(b) == Truthy(boxesMatchMap, b.id)
LineMatched(i) == Truthy(linesMatchMap, i)
LineIssued(i) == i \in DOMAIN linesIssueMap

matchedBoxes == Cardinality({k \in 1 .. totalBoxes : BoxMatched(boxes[k])})
matchedLines == Cardinality({i \in LineIndices : LineMatched(i)})
issuedLines == Cardinality({i \in LineIndices : LineIssued(i)})
resolvedLines == matchedLines + issuedLines
totalMatched == matchedBoxes + resolvedLines
allMatched == totalItems > 0 /\ totalMatched = totalItems

ArticleKey(b) == IF b.article = "" THEN "Unknown Article" ELSE b.article

\* groupedBoxes[articleName]
groupedBoxes(articleName) == SelectSeq(boxes, LAMBDA b : ArticleKey(b) = articleName)

ArticleNames == {ArticleKey(boxes[k]) : k \in 1 .. totalBoxes}

\* disabled={loading || totalItems === 0 || !allMatched}, inside {transferData && ...}
ConfirmDisabled == loading \/ totalItems = 0 \/ ~allMatched
ConfirmEnabled == mounted /\ transferData # Null /\ ~ConfirmDisabled

BlankForm == [actual_qty |-> <<>>, actual_total_weight |-> <<>>, remarks |-> <<>>]

\* the issue form is rendered under the line whose index is issueOpenIndex
IssueFormShown == mounted /\ issueOpenIndex \in LineIndices

LoadRequest(no) == [kind |-> "load", no |-> no, body |-> <<>>]
ConfirmRequest(body) == [kind |-> "confirm", no |-> <<>>, body |-> body]

----------------------------------------------------------------------------
(* TransferInPage: state after construction                                *)

TransferInit ==
    /\ transferData = Null
    /\ boxesMatchMap = EmptyMap
    /\ linesMatchMap = EmptyMap
    /\ linesIssueMap = EmptyMap
    /\ issueOpenIndex = NoIndex
    /\ issueForm = BlankForm
    /\ loading = FALSE
    /\ inflight = EmptyBag
    /\ toast = ""
    /\ mounted = TRUE
    /\ navScheduled = FALSE

MergeIdle ==
    /\ pageResults = <<>>
    /\ allPOs = <<>>
    /\ seenPONumbers = EmptyMap
    /\ pageIdx = 1
    /\ poIdx = 1
    /\ branch = "idle"

\* extractionProgress === null
NoProgress == [phase |-> "none", currentPage |-> 0, totalPages |-> 0]

\* no invocation of handleExtract / handleSubmitMulti is under way
IdleExtract ==
    [pc |-> "none", total_pages |-> 0, page |-> 0, pageResults |-> <<>>,
     warned |-> {}]
IdleSubmit ==
    [pc |-> "none", i |-> 0, baseTime |-> [s |-> 0, ms |-> 0], POs |-> <<>>,
     run |-> 0]

\* NewInwardPage: state after construction
InwardInit ==
    /\ step = "choose"
    /\ file = FALSE
    /\ extracting = FALSE
    /\ extractingRef = FALSE
    /\ extractError = ""
    /\ extractionProgress = NoProgress
    /\ vendor = ""
    /\ poNumber = <<>>
    /\ articles = <<>>
    /\ editablePOs = <<>>
    /\ extractRun = IdleExtract
    /\ requests = EmptyBag
    /\ pagesRequested = <<>>
    /\ inwardMounted = TRUE
    /\ settersAfterUnmount = FALSE
    /\ submitting = FALSE
    /\ submitError = ""
    /\ multiSubmitProgress = 0
    /\ submitRun = IdleSubmit
    /\ createLog = <<>>

\* no QrScanner has been constructed
NoScanner == [made |-> FALSE, started |-> FALSE, destroyed |-> FALSE]

\* HighPerformanceQRScanner: state once the init effect has run up to its
\* first await
ScannerInit ==
    /\ isMountedRef = TRUE
    /\ active = TRUE
    /\ initPc = "frame"
    /\ scanner = NoScanner
    /\ scannerRef = FALSE
    /\ hasScannedRef = FALSE
    /\ isCameraReady = FALSE
    /\ error = ""
    /\ showManualEntry = FALSE
    /\ manualBarcode = <<>>
    /\ decodePending = FALSE
    /\ scanCalls = <<>>
    /\ errorCalls = 0
    /\ lateSets = {}

\* the fields of the persisted form and the values a field may hold; the
\* first value is the default of every field, the last stands for undefined
Fields == {"a", "b"}
DefaultValue == "d"
Undefined == "undefined"
FieldValues == {DefaultValue, "p", "q", Undefined}
Defaults == [f \in Fields |-> DefaultValue]

\* localStorage[key]: absent, or a text that JSON.parse rejects (or parses to
\* null), or the text of an object with some of the fields
NoItem == [t |-> "none", fields |-> <<>>]
CorruptItem == [t |-> "corrupt", fields |-> <<>>]
JsonItem(object) == [t |-> "json", fields |-> object]

\* no timer
NoTimer == [left |-> 0, snapshot |-> <<>>, set |-> FALSE]

\* useFormPersistence: state after the first render with nothing stored (the
\* specification of the hook draws the stored item)
PersistInit ==
    /\ storage = NoItem
    /\ formState = Defaults
    /\ rendered = Defaults
    /\ isRestoredRef = FALSE
    /\ timers = {}
    /\ debounceRef = NoTimer
    /\ hookMounted = TRUE
    /\ sinceChange = 0
    /\ persistSeen = [atMount |-> NoItem, edited |-> FALSE, cleared |-> FALSE]

\* null, for user, currentCompany, currentCompanyAccess and accessToken
NoUser == [id |-> "", email |-> "", isDeveloper |-> FALSE, companies |-> <<>>]
NoCompany == ""
NoAccess == [code |-> "", role |-> ""]
NoToken == ""

\* useAuthStore: the state create() is given
AuthInit ==
    /\ user = NoUser
    /\ currentCompany = NoCompany
    /\ currentCompanyAccess = NoAccess
    /\ isAuthenticated = FALSE
    /\ isLoading = FALSE
    /\ accessToken = NoToken
    /\ logins = <<>>

\* createdTxnNo null
NoTxn == <<>>

\* NewInwardPage with label printing: the state after construction, on the
\* review step
LabelInit ==
    /\ createdTxnNo = NoTxn
    /\ printingBoxIdx = NoIndex
    /\ labelSubmitting = FALSE
    /\ labelCalls = {}
    /\ createsSent = <<>>
    /\ labelClock = [s |-> 0, ms |-> 0]
    /\ labelMounted = TRUE

\* the components outside the specification at hand, after construction
RestInit ==
    /\ ScannerInit /\ PersistInit /\ AuthInit /\ LabelInit
    /\ transferNumber = <<>>
    /\ lookups = <<>>

----------------------------------------------------------------------------
(* TransferInPage: handlers                                                *)

\* loadTransferDetails up to the await: a blank number is rejected with a
\* toast, any other number raises the busy flag and sends the lookup
loadTransferDetails(transferNo) ==
    /\ mounted
    /\ IF Trim(transferNo) = <<>>
       THEN /\ toast' = "Please enter a transfer number"
            /\ UNCHANGED <<loading, inflight>>
       ELSE /\ BagCardinality(inflight) < MaxInFlight
            /\ loading' = TRUE
            /\ inflight' = Sent(inflight, LoadRequest(transferNo))
            /\ toast' = toast
    /\ UNCHANGED <<transferData, boxesMatchMap, linesMatchMap, linesIssueMap,
                   issueOpenIndex, issueForm, mounted, navScheduled>>

\* loadTransferDetails after the await resolved: the try block and finally
LoadResolved(r) ==
    /\ mounted
    /\ BagIn(r, inflight)
    /\ r.kind = "load"
    /\ Known(r.no)
    /\ LET response == KnownTransfer(r.no)
       IN  /\ transferData' = response
           /\ boxesMatchMap' =
                  [id \in {response.boxes[j].id : j \in 1 .. Len(response.boxes)} |-> FALSE]
           /\ linesMatchMap' = [i \in 0 .. (Len(response.lines) - 1) |-> FALSE]
    /\ toast' = "Transfer Loaded"
    /\ loading' = FALSE
    /\ inflight' = Answered(inflight, r)
    /\ UNCHANGED <<linesIssueMap, issueOpenIndex, issueForm, mounted, navScheduled>>

\* LoadRejected without setTransferData(null)
LoadRejectedKeepsTransfer(r) ==
    /\ mounted
    /\ BagIn(r, inflight)
    /\ r.kind = "load"
    /\ toast' = "Failed to load transfer details"
    /\ loading' = FALSE
    /\ inflight' = Answered(inflight, r)
    /\ UNCHANGED <<transferData, boxesMatchMap, linesMatchMap, linesIssueMap,
                   issueOpenIndex, issueForm, mounted, navScheduled>>

\* loadTransferDetails after the await rejected (unknown number or transport
\* error): the catch block and finally
LoadRejected(r) ==
    /\ mounted
    /\ BagIn(r, inflight)
    /\ r.kind = "load"
    /\ transferData' = Null
    /\ toast' = "Failed to load transfer details"
    /\ loading' = FALSE
    /\ inflight' = Answered(inflight, r)
    /\ UNCHANGED <<boxesMatchMap, linesMatchMap, linesIssueMap, issueOpenIndex,
                   issueForm, mounted, navScheduled>>

\* the Acknowledge button of a box row, rendered while the box is not matched
handleAcknowledgeBox(boxId) ==
    /\ mounted
    /\ \E k \in 1 .. totalBoxes : boxes[k].id = boxId /\ ~BoxMatched(boxes[k])
    /\ boxesMatchMap' = Put(boxesMatchMap, boxId, TRUE)
    /\ toast' = "Box Acknowledged"
    /\ UNCHANGED <<transferData, linesMatchMap, linesIssueMap, issueOpenIndex,
                   issueForm, loading, inflight, mounted, navScheduled>>

\* the All button of an article group, rendered while the group has an
\* unmatched box
handleAcknowledgeArticleBoxes(articleName) ==
    LET articleBoxes == groupedBoxes(articleName)
        ids == {articleBoxes[j].id : j \in 1 .. Len(articleBoxes)}
    IN  /\ mounted
        /\ articleName \in ArticleNames
        /\ \E j \in 1 .. Len(articleBoxes) : ~BoxMatched(articleBoxes[j])
        /\ boxesMatchMap' =
               [id \in DOMAIN boxesMatchMap \cup ids |->
                    IF id \in ids THEN TRUE ELSE boxesMatchMap[id]]
        /\ toast' = "Article Boxes Acknowledged"
        /\ UNCHANGED <<transferData, linesMatchMap, linesIssueMap, issueOpenIndex,
                       issueForm, loading, inflight, mounted, navScheduled>>

\* the Acknowledge button of a line, rendered while the line is neither
\* matched nor issued
handleAcknowledgeLine(lineIndex) ==
    /\ mounted
    /\ lineIndex \in LineIndices
    /\ ~LineMatched(lineIndex) /\ ~LineIssued(lineIndex)
    /\ linesMatchMap' = Put(linesMatchMap, lineIndex, TRUE)
    /\ toast' = "Article Acknowledged"
    /\ UNCHANGED <<transferData, boxesMatchMap, linesIssueMap, issueOpenIndex,
                   issueForm, loading, inflight, mounted, navScheduled>>

\* String(line.qty || line.quantity || ""), String(line.total_weight || "")
NumberOrBlank(n) == IF n = 0 THEN <<>> ELSE NumToChars(n)

\* the Issue button of a line, rendered like its Acknowledge button
handleOpenIssue(lineIndex) ==
    /\ mounted
    /\ lineIndex \in LineIndices
    /\ ~LineMatched(lineIndex) /\ ~LineIssued(lineIndex)
    /\ issueOpenIndex' = lineIndex
    /\ issueForm' = [actual_qty |-> NumberOrBlank(lines[lineIndex + 1].qty),
                     actual_total_weight |-> NumberOrBlank(lines[lineIndex + 1].total_weight),
                     remarks |-> <<>>]
    /\ UNCHANGED <<transferData, boxesMatchMap, linesMatchMap, linesIssueMap,
                   loading, inflight, toast, mounted, navScheduled>>

\* onChange of the inputs of the issue form, each
\* setIssueForm(prev => ({...prev, field: value})), until the form reads
\* as the operator wants it
setIssueForm(form) ==
    /\ IssueFormShown
    /\ issueForm # form
    /\ issueForm' = [f \in DOMAIN issueForm |-> form[f]]
    /\ UNCHANGED <<transferData, boxesMatchMap, linesMatchMap, linesIssueMap,
                   issueOpenIndex, loading, inflight, toast, mounted, navScheduled>>

\* handleSubmitIssue rejecting the form when either number is missing
handleSubmitIssueEitherMissing(lineIndex) ==
    LET actualQty == parseFloat(issueForm.actual_qty)
        actualWeight == parseFloat(issueForm.actual_total_weight)
    IN  /\ IssueFormShown
        /\ issueOpenIndex = lineIndex
        /\ IF isNaN(actualQty) \/ isNaN(actualWeight)
           THEN /\ toast' = "Enter at least actual quantity or actual total weight"
                /\ UNCHANGED <<linesIssueMap, linesMatchMap, issueOpenIndex, issueForm>>
           ELSE /\ linesIssueMap' = Put(linesIssueMap, lineIndex,
                       [actual_qty |-> actualQty[1],
                        actual_total_weight |-> actualWeight[1],
                        remarks |-> Trim(issueForm.remarks)])
                /\ linesMatchMap' = Delete(linesMatchMap, lineIndex)
                /\ issueOpenIndex' = NoIndex
                /\ issueForm' = BlankForm
                /\ toast' = "Issue Reported"
        /\ UNCHANGED <<transferData, boxesMatchMap, loading, inflight, mounted,
                       navScheduled>>

\* the Submit Issue button of the form shown under line lineIndex
handleSubmitIssue(lineIndex) ==
    LET actualQty == parseFloat(issueForm.actual_qty)
        actualWeight == parseFloat(issueForm.actual_total_weight)
    IN  /\ IssueFormShown
        /\ issueOpenIndex = lineIndex
        /\ IF isNaN(actualQty) /\ isNaN(actualWeight)
           THEN /\ toast' = "Enter at least actual quantity or actual total weight"
                /\ UNCHANGED <<linesIssueMap, linesMatchMap, issueOpenIndex, issueForm>>
           ELSE /\ linesIssueMap' = Put(linesIssueMap, lineIndex,
                       [actual_qty |-> IF isNaN(actualQty) THEN 0 ELSE actualQty[1],
                        actual_total_weight |->
                            IF isNaN(actualWeight) THEN 0 ELSE actualWeight[1],
                        remarks |-> Trim(issueForm.remarks)])
                /\ linesMatchMap' = Delete(linesMatchMap, lineIndex)
                /\ issueOpenIndex' = NoIndex
                /\ issueForm' = BlankForm
                /\ toast' = "Issue Reported"
        /\ UNCHANGED <<transferData, boxesMatchMap, loading, inflight, mounted,
                       navScheduled>>

\* the Cancel and X buttons of the issue form
handleCancelIssue ==
    /\ IssueFormShown
    /\ issueOpenIndex' = NoIndex
    /\ issueForm' = BlankForm
    /\ UNCHANGED <<transferData, boxesMatchMap, linesMatchMap, linesIssueMap,
                   loading, inflight, toast, mounted, navScheduled>>

\* the Acknowledge All button, rendered under {!allMatched && totalItems > 0}
handleAcknowledgeAll ==
    /\ mounted
    /\ transferData # Null
    /\ ~allMatched /\ totalItems > 0
    /\ boxesMatchMap' =
           [id \in DOMAIN boxesMatchMap \cup {boxes[k].id : k \in 1 .. totalBoxes} |->
                IF \E k \in 1 .. totalBoxes : boxes[k].id = id
                THEN TRUE ELSE boxesMatchMap[id]]
    /\ linesMatchMap' =
           [i \in DOMAIN linesMatchMap \cup LineIndices |->
                IF i \in LineIndices THEN TRUE ELSE linesMatchMap[i]]
    /\ toast' = "All Acknowledged"
    /\ UNCHANGED <<transferData, linesIssueMap, issueOpenIndex, issueForm,
                   loading, inflight, mounted, navScheduled>>

\* the All button of the lines section, rendered under
\* {resolvedLines < totalLines}
handleAcknowledgeAllLines ==
    /\ mounted
    /\ transferData # Null
    /\ resolvedLines < totalLines
    /\ linesMatchMap' =
           [i \in DOMAIN linesMatchMap \cup {j \in LineIndices : ~LineIssued(j)} |->
                IF i \in LineIndices /\ ~LineIssued(i) THEN TRUE ELSE linesMatchMap[i]]
    /\ toast' = "All Articles Acknowledged"
    /\ UNCHANGED <<transferData, boxesMatchMap, linesIssueMap, issueOpenIndex,
                   issueForm, loading, inflight, mounted, navScheduled>>

\* the All button of the boxes section, rendered under
\* {matchedBoxes < totalBoxes}
handleAcknowledgeAllBoxes ==
    /\ mounted
    /\ transferData # Null
    /\ matchedBoxes < totalBoxes
    /\ boxesMatchMap' =
           [id \in DOMAIN boxesMatchMap \cup {boxes[k].id : k \in 1 .. totalBoxes} |->
                IF \E k \in 1 .. totalBoxes : boxes[k].id = id
                THEN TRUE ELSE boxesMatchMap[id]]
    /\ toast' = "All Boxes Acknowledged"
    /\ UNCHANGED <<transferData, linesMatchMap, linesIssueMap, issueOpenIndex,
                   issueForm, loading, inflight, mounted, navScheduled>>

\* `ART-${i + 1}`
ArticleBoxNumber(i) == <<"A", "R", "T", "-">> \o NumToChars(i + 1)

\* String(b.box_id || b.box_number || b.id || "")
BoxNumberText(b) ==
    IF b.box_number # 0 THEN NumToChars(b.box_number)
    ELSE IF b.id # 0 THEN NumToChars(b.id)
    ELSE <<>>

\* In a request body a nullable value is <<>> for null and <<v>> for v.

\* the record handleConfirmReceipt builds for a matched box
ScannedBoxRecord(b) ==
    [box_number |-> BoxNumberText(b),
     transfer_out_box_id |-> <<b.id>>,
     article |-> IF b.article = "" THEN <<>> ELSE <<b.article>>,
     is_matched |-> TRUE]

\* the pseudo-box record of an acknowledged line
AcknowledgedArticleRecord(i) ==
    [box_number |-> ArticleBoxNumber(i),
     transfer_out_box_id |-> <<>>,
     article |-> <<lines[i + 1].item_description>>,
     is_matched |-> TRUE,
     issue |-> <<>>]

\* the pseudo-box record of an issued line; remarks || null keeps a
\* non-empty remark and turns the empty one into null
IssuedArticleRecord(i) ==
    [box_number |-> ArticleBoxNumber(i),
     transfer_out_box_id |-> <<>>,
     article |-> <<lines[i + 1].item_description>>,
     is_matched |-> FALSE,
     issue |-> <<[actual_qty |-> linesIssueMap[i].actual_qty,
                  actual_total_weight |-> linesIssueMap[i].actual_total_weight,
                  remarks |-> IF linesIssueMap[i].remarks = <<>>
                              THEN <<>> ELSE <<linesIssueMap[i].remarks>>]>>]

\* lines.map((line, i) => ({line, i})): the indices in line order
LineIndexSeq == [k \in 1 .. totalLines |-> k - 1]

scannedBoxes ==
    LET kept == SelectSeq(boxes, BoxMatched)
    IN  [k \in 1 .. Len(kept) |-> ScannedBoxRecord(kept[k])]

\* acknowledgedArticles without its filter: a record for every line
acknowledgedArticlesUnfiltered ==
    [k \in 1 .. totalLines |-> AcknowledgedArticleRecord(k - 1)]

acknowledgedArticles ==
    LET kept == SelectSeq(LineIndexSeq, LineMatched)
    IN  [k \in 1 .. Len(kept) |-> AcknowledgedArticleRecord(kept[k])]

issuedArticles ==
    LET kept == SelectSeq(LineIndexSeq, LineIssued)
    IN  [k \in 1 .. Len(kept) |-> IssuedArticleRecord(kept[k])]

\* [...scannedBoxes, ...acknowledgedArticles, ...issuedArticles]
allScannedBoxes == scannedBoxes \o acknowledgedArticles \o issuedArticles

\* handleConfirmReceipt up to the await: the Confirm Receipt button is
\* rendered with the transfer and disabled by ConfirmDisabled
handleConfirmReceipt ==
    /\ ConfirmEnabled
    /\ BagCardinality(inflight) < MaxInFlight
    /\ loading' = TRUE
    /\ inflight' = Sent(inflight,
           ConfirmRequest([transfer_out_id |-> transferData.id,
                           scanned_boxes |-> allScannedBoxes]))
    /\ UNCHANGED <<transferData, boxesMatchMap, linesMatchMap, linesIssueMap,
                   issueOpenIndex, issueForm, toast, mounted, navScheduled>>

\* handleConfirmReceipt after createTransferIn resolved: toast, the
\* navigation timer, finally
ConfirmResolved(r) ==
    /\ mounted
    /\ BagIn(r, inflight)
    /\ r.kind = "confirm"
    /\ toast' = "Transfer IN Created"
    /\ navScheduled' = TRUE
    /\ loading' = FALSE
    /\ inflight' = Answered(inflight, r)
    /\ UNCHANGED <<transferData, boxesMatchMap, linesMatchMap, linesIssueMap,
                   issueOpenIndex, issueForm, mounted>>

\* ConfirmRejected starting the reconciliation over
ConfirmRejectedResets(r) ==
    /\ mounted
    /\ BagIn(r, inflight)
    /\ r.kind = "confirm"
    /\ toast' = "Failed to confirm transfer receipt"
    /\ loading' = FALSE
    /\ inflight' = Answered(inflight, r)
    /\ boxesMatchMap' = [id \in DOMAIN boxesMatchMap |-> FALSE]
    /\ linesMatchMap' = [i \in DOMAIN linesMatchMap |-> FALSE]
    /\ linesIssueMap' = EmptyMap
    /\ UNCHANGED <<transferData, issueOpenIndex, issueForm, mounted, navScheduled>>

\* handleConfirmReceipt after createTransferIn rejected: catch and finally
ConfirmRejected(r) ==
    /\ mounted
    /\ BagIn(r, inflight)
    /\ r.kind = "confirm"
    /\ toast' = "Failed to confirm transfer receipt"
    /\ loading' = FALSE
    /\ inflight' = Answered(inflight, r)
    /\ UNCHANGED <<transferData, boxesMatchMap, linesMatchMap, linesIssueMap,
                   issueOpenIndex, issueForm, mounted, navScheduled>>

\* the component unmounts and its state is discarded
Unmounted ==
    /\ mounted' = FALSE
    /\ transferData' = Null
    /\ boxesMatchMap' = EmptyMap
    /\ linesMatchMap' = EmptyMap
    /\ linesIssueMap' = EmptyMap
    /\ issueOpenIndex' = NoIndex
    /\ issueForm' = BlankForm
    /\ loading' = FALSE
    /\ navScheduled' = FALSE

\* the back button of the header: router.push at any time
goBack ==
    /\ mounted
    /\ Unmounted
    /\ UNCHANGED <<inflight, toast>>

\* the timer set by a successful confirm fires: router.push
navTimerFires ==
    /\ mounted
    /\ navScheduled
    /\ Unmounted
    /\ UNCHANGED <<inflight, toast>>

\* a response that arrives after the page was left: the state setters of an
\* unmounted component do nothing, the toast is still raised
ResponseAfterUnmount(r, ok) ==
    /\ ~mounted
    /\ BagIn(r, inflight)
    /\ ok => (r.kind = "load" => Known(r.no))
    /\ toast' = IF r.kind = "load"
                THEN (IF ok THEN "Transfer Loaded" ELSE "Failed to load transfer details")
                ELSE (IF ok THEN "Transfer IN Created"
                            ELSE "Failed to confirm transfer receipt")
    /\ inflight' = Answered(inflight, r)
    /\ UNCHANGED <<transferData, boxesMatchMap, linesMatchMap, linesIssueMap,
                   issueOpenIndex, issueForm, loading, mounted, navScheduled>>

----------------------------------------------------------------------------
(* Specification of the transfer-in view                                   *)

Init == TransferInit /\ MergeIdle /\ InwardInit /\ RestInit

Next ==
    \/ (\E no \in TransferInputs : loadTransferDetails(no)) /\ UNCHANGED <<mergeVars, inwardVars, restVars>>
    \/ (\E r \in BagToSet(inflight) : LoadResolved(r)) /\ UNCHANGED <<mergeVars, inwardVars, restVars>>
    \/ (\E r \in BagToSet(inflight) : LoadRejected(r)) /\ UNCHANGED <<mergeVars, inwardVars, restVars>>
    \/ (\E k \in 1 .. totalBoxes : handleAcknowledgeBox(boxes[k].id))
           /\ UNCHANGED <<mergeVars, inwardVars, restVars>>
    \/ (\E a \in ArticleNames : handleAcknowledgeArticleBoxes(a)) /\ UNCHANGED <<mergeVars, inwardVars, restVars>>
    \/ (\E i \in LineIndices : handleAcknowledgeLine(i)) /\ UNCHANGED <<mergeVars, inwardVars, restVars>>
    \/ (\E i \in LineIndices : handleOpenIssue(i)) /\ UNCHANGED <<mergeVars, inwardVars, restVars>>
    \/ (\E form \in IssueForms : setIssueForm(form)) /\ UNCHANGED <<mergeVars, inwardVars, restVars>>
    \/ (\E i \in LineIndices : handleSubmitIssue(i)) /\ UNCHANGED <<mergeVars, inwardVars, restVars>>
    \/ handleCancelIssue /\ UNCHANGED <<mergeVars, inwardVars, restVars>>
    \/ handleAcknowledgeAll /\ UNCHANGED <<mergeVars, inwardVars, restVars>>
    \/ handleAcknowledgeAllLines /\ UNCHANGED <<mergeVars, inwardVars, restVars>>
    \/ handleAcknowledgeAllBoxes /\ UNCHANGED <<mergeVars, inwardVars, restVars>>
    \/ handleConfirmReceipt /\ UNCHANGED <<mergeVars, inwardVars, restVars>>
    \/ (\E r \in BagToSet(inflight) : ConfirmResolved(r)) /\ UNCHANGED <<mergeVars, inwardVars, restVars>>
    \/ (\E r \in BagToSet(inflight) : ConfirmRejected(r)) /\ UNCHANGED <<mergeVars, inwardVars, restVars>>
    \/ goBack /\ UNCHANGED <<mergeVars, inwardVars, restVars>>
    \/ navTimerFires /\ UNCHANGED <<mergeVars, inwardVars, restVars>>
    \/ (\E r \in BagToSet(inflight), ok \in BOOLEAN : ResponseAfterUnmount(r, ok))
           /\ UNCHANGED <<mergeVars, inwardVars, restVars>>

Spec == Init /\ [][Next]_vars

----------------------------------------------------------------------------
(* mergePageResults: JavaScript values of the extraction records           *)

\* a scalar of an extraction record: undefined / null, a string, a number
\* (the text of po_number, which the code trims, is a sequence of characters)
U == [t |-> "undefined"]
S(v) == [t |-> "string", s |-> v]
N(v) == [t |-> "number", n |-> v]

\* the value converted to a boolean: !!v
JsTruthy(v) ==
    CASE v.t = "undefined" -> FALSE
      [] v.t = "string" -> v.s # ""
      [] v.t = "number" -> v.n # 0

\* some of the property names every object literal inherits from
\* Object.prototype: `name in {}` is true for them
ObjectPrototypeNames ==
    {<<"c", "o", "n", "s", "t", "r", "u", "c", "t", "o", "r">>,
     <<"v", "a", "l", "u", "e", "O", "f">>}

fillFields ==
    <<"supplier_name", "customer_name", "source_location",
      "destination_location", "purchased_by", "currency",
      "total_amount", "tax_amount", "discount_amount", "po_quantity">>

----------------------------------------------------------------------------
(* mergePageResults: the bounded inputs                                    *)

\* entries and page breaks of one input, together
MaxTokens == 4

FieldsNone ==
    [supplier_name |-> U, customer_name |-> U, source_location |-> U,
     destination_location |-> U, purchased_by |-> U, currency |-> U,
     total_amount |-> U, tax_amount |-> U, discount_amount |-> U,
     po_quantity |-> U]

\* as extracted from the first page of a purchase order
FieldsFirst ==
    [supplier_name |-> S("Acme"), customer_name |-> U, source_location |-> S(""),
     destination_location |-> S("Pune"), purchased_by |-> U, currency |-> S("INR"),
     total_amount |-> N(100), tax_amount |-> N(0), discount_amount |-> N(0),
     po_quantity |-> U]

\* as extracted from a later page
FieldsSecond ==
    [supplier_name |-> S("Other"), customer_name |-> S("Cust"),
     source_location |-> S("Delhi"), destination_location |-> U,
     purchased_by |-> S(""), currency |-> S("USD"), total_amount |-> N(250),
     tax_amount |-> U, discount_amount |-> N(5), po_quantity |-> N(7)]

\* what an entry carries besides its number: how many articles, which fields
ContentFirst == [narticles |-> 1, fields |-> FieldsFirst]
ContentSecond == [narticles |-> 2, fields |-> FieldsSecond]

\* entries with a PO number: one number in two spellings, as a first page
\* and as a later page would carry it, and another number with either content
KeyedTokens ==
    {[po_number |-> S(<<"A">>), content |-> ContentFirst],
     [po_number |-> S(<<" ", "A", " ">>), content |-> ContentSecond],
     [po_number |-> S(<<"B">>), content |-> ContentFirst],
     [po_number |-> S(<<"B">>), content |-> ContentSecond]}

\* an entry whose PO number reads as a name of Object.prototype
InheritedNameToken ==
    [po_number |-> S(<<"c", "o", "n", "s", "t", "r", "u", "c", "t", "o", "r">>),
     content |-> ContentFirst]

\* entries without a PO number: the number absent or blank, with articles
\* (a continuation) or without (noise)
UnkeyedTokens ==
    {[po_number |-> U, content |-> ContentFirst],
     [po_number |-> S(<<" ">>), content |-> ContentSecond],
     [po_number |-> U, content |-> [narticles |-> 0, fields |-> FieldsNone]]}

\* an input is written as a sequence of tokens: an entry to extract, or the
\* break between two pages
BreakToken == [break |-> TRUE]
EntryTokens == KeyedTokens \cup UnkeyedTokens \cup {InheritedNameToken}
Tokens == EntryTokens \cup {BreakToken}

Scripts == UNION {[1 .. n -> Tokens] : n \in 0 .. MaxTokens}

\* the entry a token stands for; its articles are named after the position
\* of the token, so that no two articles of an input are equal
EntryOf(token, pos) ==
    [po_number |-> token.po_number,
     articles |-> [k \in 1 .. token.content.narticles |->
                       [item_description |-> <<pos, k>>]]]
        @@ token.content.fields

\* the entries of script[from ..] up to the next break
RECURSIVE EntriesUpToBreak(_, _)
EntriesUpToBreak(script, from) ==
    IF from > Len(script) \/ script[from] = BreakToken THEN <<>>
    ELSE <<EntryOf(script[from], from)>> \o EntriesUpToBreak(script, from + 1)

\* the pages of script[from ..], numbered from num; of the pages without
\* entries, the odd ones have no purchase_orders list at all (listed is
\* FALSE) and the even ones have an empty list
RECURSIVE PagesFrom(_, _, _)
PagesFrom(script, from, num) ==
    LET entries == EntriesUpToBreak(script, from)
        next == from + Len(entries)
        page == [page_num |-> num,
                 listed |-> entries # <<>> \/ num % 2 = 0,
                 purchase_orders |-> entries]
    IN  IF next > Len(script) THEN <<page>>
        ELSE <<page>> \o PagesFrom(script, next + 1, num + 1)

\* the page results a script stands for; the empty script is no page at all
PagesOf(script) == IF script = <<>> THEN <<>> ELSE PagesFrom(script, 1, 1)

----------------------------------------------------------------------------
(* mergePageResults: the loop body                                         *)

\* const poNum = po.po_number?.trim() || null
poNumOf(po) ==
    IF po.po_number = U THEN U
    ELSE IF Trim(po.po_number.s) = <<>> THEN U
    ELSE S(Trim(po.po_number.s))

\* BackFill without the !existing[f] test: the later page wins
RECURSIVE BackFillLastWins(_, _, _)
BackFillLastWins(existing, po, k) ==
    IF k > Len(fillFields) THEN existing
    ELSE LET f == fillFields[k]
         IN  BackFillLastWins(IF JsTruthy(po[f])
                              THEN [existing EXCEPT ![f] = po[f]]
                              ELSE existing,
                              po, k + 1)

\* for (const f of fillFields) if (!existing[f] && po[f]) existing[f] = po[f],
\* from the k-th field on
RECURSIVE BackFill(_, _, _)
BackFill(existing, po, k) ==
    IF k > Len(fillFields) THEN existing
    ELSE LET f == fillFields[k]
         IN  BackFill(IF ~JsTruthy(existing[f]) /\ JsTruthy(po[f])
                      THEN [existing EXCEPT ![f] = po[f]]
                      ELSE existing,
                      po, k + 1)

\* MergedInto with existing.articles = [...articles]: the articles of the
\* entry replace those of the PO
MergedIntoReplacesArticles(existing, po) ==
    BackFill([existing EXCEPT !.articles = po.articles], po, 1)

\* existing.articles = [...existing.articles, ...articles], then the backfill
MergedInto(existing, po) ==
    BackFill([existing EXCEPT !.articles = existing.articles \o po.articles], po, 1)

\* BranchOf without `if (!poNum && articles.length === 0) continue`
BranchOfKeepsNoise(POs, seen, po) ==
    LET poNum == poNumOf(po)
    IN  IF poNum # U /\ poNum.s \in DOMAIN seen THEN "same-key"
        ELSE IF poNum # U /\ poNum.s \in ObjectPrototypeNames THEN "throws"
        ELSE IF poNum # U THEN "new-key"
        ELSE IF Len(POs) > 0 THEN "orphan-append"
        ELSE "orphan-first"

\* which branch of the loop body the entry po takes; `poNum in seenPONumbers`
\* also holds for an inherited name, for which seenPONumbers[poNum] is no
\* index, existing is undefined and existing.articles throws a TypeError
BranchOf(POs, seen, po) ==
    LET poNum == poNumOf(po)
    IN  IF poNum = U /\ po.articles = <<>> THEN "noise"
        ELSE IF poNum # U /\ poNum.s \in DOMAIN seen THEN "same-key"
        ELSE IF poNum # U /\ poNum.s \in ObjectPrototypeNames THEN "throws"
        ELSE IF poNum # U THEN "new-key"
        ELSE IF Len(POs) > 0 THEN "orphan-append"
        ELSE "orphan-first"

\* AllPOsAfter with allPOs.push({ ...po, articles: [...articles, ...articles] })
\* for a new key
AllPOsAfterNewKeyRepeatsArticles(POs, seen, po) ==
    LET b == BranchOf(POs, seen, po)
    IN  CASE b = "noise" -> POs
          [] b = "throws" -> POs
          [] b = "same-key" ->
                 [POs EXCEPT ![seen[poNumOf(po).s] + 1] =
                                 MergedInto(POs[seen[poNumOf(po).s] + 1], po)]
          [] b = "new-key" ->
                 Append(POs, [po EXCEPT !.articles = po.articles \o po.articles])
          [] b = "orphan-append" ->
                 [POs EXCEPT ![Len(POs)] = MergedInto(POs[Len(POs)], po)]
          [] b = "orphan-first" -> Append(POs, po)

\* AllPOsAfter with const prev = allPOs[0]: the orphan joins the first PO
AllPOsAfterOrphanToFirst(POs, seen, po) ==
    LET b == BranchOf(POs, seen, po)
    IN  CASE b = "noise" -> POs
          [] b = "throws" -> POs
          [] b = "same-key" ->
                 [POs EXCEPT ![seen[poNumOf(po).s] + 1] =
                                 MergedInto(POs[seen[poNumOf(po).s] + 1], po)]
          [] b = "new-key" -> Append(POs, po)
          [] b = "orphan-append" -> [POs EXCEPT ![1] = MergedInto(POs[1], po)]
          [] b = "orphan-first" -> Append(POs, po)

\* allPOs after the loop body ran on po
AllPOsAfter(POs, seen, po) ==
    LET b == BranchOf(POs, seen, po)
    IN  CASE b = "noise" -> POs
          [] b = "throws" -> POs
          [] b = "same-key" ->
                 [POs EXCEPT ![seen[poNumOf(po).s] + 1] =
                                 MergedInto(POs[seen[poNumOf(po).s] + 1], po)]
          [] b = "new-key" -> Append(POs, po)
          [] b = "orphan-append" ->
                 [POs EXCEPT ![Len(POs)] = MergedInto(POs[Len(POs)], po)]
          [] b = "orphan-first" -> Append(POs, po)

\* SeenAfter without seenPONumbers[poNum] = allPOs.length: no key is remembered
SeenAfterForgets(POs, seen, po) == seen

\* seenPONumbers after the loop body ran on po
SeenAfter(POs, seen, po) ==
    IF BranchOf(POs, seen, po) = "new-key"
    THEN Put(seen, poNumOf(po).s, Len(POs))
    ELSE seen

----------------------------------------------------------------------------
(* mergePageResults: the function as a whole                               *)

\* the locals before the first iteration
MergeStart == [POs |-> <<>>, seen |-> EmptyMap, threw |-> FALSE]

\* the loop body on po; after a throw nothing runs any more
MergeEntry(st, po) ==
    IF st.threw THEN st
    ELSE [POs |-> AllPOsAfter(st.POs, st.seen, po),
          seen |-> SeenAfter(st.POs, st.seen, po),
          threw |-> BranchOf(st.POs, st.seen, po) = "throws"]

\* for (const po of page.purchase_orders)
RECURSIVE MergeEntries(_, _)
MergeEntries(st, entries) ==
    IF entries = <<>> THEN st
    ELSE MergeEntries(MergeEntry(st, Head(entries)), Tail(entries))

\* for (const page of pageResults), with the continue on a page that has no
\* purchase_orders list or an empty one
RECURSIVE MergePages(_, _)
MergePages(st, pages) ==
    IF pages = <<>> THEN st
    ELSE MergePages(IF ~Head(pages).listed \/ Head(pages).purchase_orders = <<>>
                    THEN st
                    ELSE MergeEntries(st, Head(pages).purchase_orders),
                    Tail(pages))

\* mergePageResults(pages): what it returns, or that it threw
mergePageResults(pages) ==
    LET st == MergePages(MergeStart, pages)
    IN  [threw |-> st.threw,
         purchase_orders |-> IF st.threw THEN <<>> ELSE st.POs]

----------------------------------------------------------------------------
(* mergePageResults: one iteration per step                                *)

MergeInit ==
    /\ pageResults \in {PagesOf(script) : script \in Scripts}
    /\ allPOs = <<>>
    /\ seenPONumbers = EmptyMap
    /\ pageIdx = 1
    /\ poIdx = 1
    /\ branch = "start"

\* if (!page.purchase_orders || page.purchase_orders.length === 0) continue
MergeSkipPage ==
    /\ branch # "throws"
    /\ pageIdx <= Len(pageResults)
    /\ ~pageResults[pageIdx].listed \/ pageResults[pageIdx].purchase_orders = <<>>
    /\ pageIdx' = pageIdx + 1
    /\ branch' = "skip-page"
    /\ UNCHANGED <<pageResults, allPOs, seenPONumbers, poIdx>>

\* one pass of the inner loop body, on the entry the two loops stand at
MergeIteration ==
    /\ branch # "throws"
    /\ pageIdx <= Len(pageResults)
    /\ poIdx <= Len(pageResults[pageIdx].purchase_orders)
    /\ LET po == pageResults[pageIdx].purchase_orders[poIdx]
       IN  /\ allPOs' = AllPOsAfter(allPOs, seenPONumbers, po)
           /\ seenPONumbers' = SeenAfter(allPOs, seenPONumbers, po)
           /\ branch' = BranchOf(allPOs, seenPONumbers, po)
    /\ IF poIdx = Len(pageResults[pageIdx].purchase_orders)
       THEN pageIdx' = pageIdx + 1 /\ poIdx' = 1
       ELSE pageIdx' = pageIdx /\ poIdx' = poIdx + 1
    /\ UNCHANGED pageResults

\* return { purchase_orders: allPOs }
MergeReturn ==
    /\ pageIdx > Len(pageResults)
    /\ branch \notin {"returned", "throws"}
    /\ branch' = "returned"
    /\ UNCHANGED <<pageResults, allPOs, seenPONumbers, pageIdx, poIdx>>

InitMerge == TransferInit /\ MergeInit /\ InwardInit /\ RestInit

NextMerge ==
    \/ MergeSkipPage /\ UNCHANGED <<transferVars, inwardVars, restVars>>
    \/ MergeIteration /\ UNCHANGED <<transferVars, inwardVars, restVars>>
    \/ MergeReturn /\ UNCHANGED <<transferVars, inwardVars, restVars>>

SpecMerge == InitMerge /\ [][NextMerge]_vars

----------------------------------------------------------------------------
(* NewInwardPage: the extraction collaborators                             *)

\* pages of the largest PDF the upload reports
MaxPages == 3

\* the requests of the page: uploadPOForExtraction, extractPOPage(job_id,
\* page), skuLookup for article art of PO po (po is NoIndex for the single
\* review form)
UploadRequest == [kind |-> "upload", page |-> 0, po |-> NoIndex, art |-> 0]
PageRequest(page) == [kind |-> "page", page |-> page, po |-> NoIndex, art |-> 0]
SkuRequest(po, art) == [kind |-> "sku", page |-> 0, po |-> po, art |-> art]

\* what the extraction of page num may answer: no purchase order, or one
\* entry of one article, with one of two PO numbers, with none, or with the
\* name of a property every object inherits
PageTokens ==
    {[po_number |-> S(<<"A">>), content |-> ContentFirst],
     [po_number |-> S(<<"B">>), content |-> ContentFirst],
     [po_number |-> U, content |-> ContentFirst],
     InheritedNameToken}

PageResponses(num) ==
    {[page_num |-> num, listed |-> TRUE, purchase_orders |-> <<>>]}
        \cup {[page_num |-> num, listed |-> TRUE,
               purchase_orders |-> <<EntryOf(token, num)>>] : token \in PageTokens}

\* the result pushed for a page whose extraction failed
FailedPage(num) == [page_num |-> num, listed |-> TRUE, purchase_orders |-> <<>>]

\* the sku_id a successful lookup answers with
SkuIds == {7}

----------------------------------------------------------------------------
(* NewInwardPage: handleExtract and the SKU lookups                        *)

\* v || "" for a string field of an extraction record
TextOr(v, default) == IF JsTruthy(v) THEN v.s ELSE default

\* data.po_number || ""
PoNumberText(po) == IF po.po_number = U THEN <<>> ELSE po.po_number.s

\* the ArticleFields built from an extracted article
IdleArticle(a) ==
    [item_description |-> a.item_description, skuStatus |-> "idle",
     sku_id |-> 0, skuError |-> ""]

\* the article once lookupSKU / lookupMultiPOSKU, called in the synchronous
\* block that built it, has started its lookup
LoadingArticle(a) == [IdleArticle(a) EXCEPT !.skuStatus = "loading"]

LoadingArticles(as) == [k \in 1 .. Len(as) |-> LoadingArticle(as[k])]

\* the EditablePO built from a merged PO
EditableOf(po) ==
    [supplier_name |-> TextOr(po.supplier_name, ""),
     po_number |-> PoNumberText(po),
     currency |-> TextOr(po.currency, "INR"),
     articles |-> LoadingArticles(po.articles)]

\* the catch block of handleExtract: setExtractError(message), nothing else
\* is set and no lookup is started
ExtractFailed(message) ==
    [step |-> step, vendor |-> vendor, poNumber |-> poNumber,
     articles |-> articles, editablePOs |-> editablePOs,
     extractError |-> message, lookups |-> {}]

\* the end of handleExtract with `if (pos.length >= 1)` for the single form:
\* the first merged PO populates the review form however many there are
ExtractOutcomeFirstPOOnly(pages) ==
    LET merged == mergePageResults(pages)
        pos == merged.purchase_orders
        same == ExtractFailed("")
    IN  IF merged.threw
        THEN [same EXCEPT !.extractError = "Cannot read properties of undefined"]
        ELSE IF Len(pos) = 0
        THEN [same EXCEPT !.extractError = "No purchase orders found in the PDF"]
        ELSE [same EXCEPT
                 !.step = "review",
                 !.vendor = TextOr(pos[1].supplier_name, ""),
                 !.poNumber = PoNumberText(pos[1]),
                 !.articles = LoadingArticles(pos[1].articles),
                 !.lookups = {SkuRequest(NoIndex, idx - 1) :
                                  idx \in 1 .. Len(pos[1].articles)}]

\* what the end of handleExtract makes of the page results: the values it
\* sets and the lookups it starts
ExtractOutcome(pages) ==
    LET merged == mergePageResults(pages)
        pos == merged.purchase_orders
        same == ExtractFailed("")
    IN  IF merged.threw
        THEN [same EXCEPT !.extractError = "Cannot read properties of undefined"]
        ELSE IF Len(pos) = 0
        THEN [same EXCEPT !.extractError = "No purchase orders found in the PDF"]
        ELSE IF Len(pos) = 1
        THEN [same EXCEPT
                 !.step = "review",
                 !.vendor = TextOr(pos[1].supplier_name, ""),
                 !.poNumber = PoNumberText(pos[1]),
                 !.articles = LoadingArticles(pos[1].articles),
                 !.lookups = {SkuRequest(NoIndex, idx - 1) :
                                  idx \in 1 .. Len(pos[1].articles)}]
        ELSE [same EXCEPT
                 !.step = "multi-po",
                 !.editablePOs = [i \in 1 .. Len(pos) |-> EditableOf(pos[i])],
                 !.lookups = UNION {{SkuRequest(i - 1, j - 1) :
                                         j \in 1 .. Len(pos[i].articles)} :
                                    i \in 1 .. Len(pos)}]

\* the values of outcome v are set and the finally block runs; the state
\* setters of an unmounted component do nothing
Finished(v) ==
    IF inwardMounted
    THEN /\ step' = v.step
         /\ vendor' = v.vendor
         /\ poNumber' = v.poNumber
         /\ articles' = v.articles
         /\ editablePOs' = v.editablePOs
         /\ extractError' = v.extractError
         /\ extracting' = FALSE
         /\ extractionProgress' = NoProgress
         /\ extractingRef' = FALSE
         /\ UNCHANGED settersAfterUnmount
    ELSE /\ settersAfterUnmount' = TRUE
         /\ UNCHANGED <<step, vendor, poNumber, articles, editablePOs, extractError,
                        extracting, extractionProgress, extractingRef>>

\* setExtractionProgress(progress)
Progressed(progress) ==
    IF inwardMounted
    THEN extractionProgress' = progress /\ UNCHANGED settersAfterUnmount
    ELSE settersAfterUnmount' = TRUE /\ UNCHANGED extractionProgress

\* the card "Upload PO (PDF)" of the first step
chooseUpload ==
    /\ inwardMounted
    /\ step = "choose"
    /\ step' = "upload"
    /\ UNCHANGED <<file, extracting, extractingRef, extractError, extractionProgress,
                   vendor, poNumber, articles, editablePOs, extractRun, requests,
                   pagesRequested, inwardMounted, settersAfterUnmount>>

\* the button "Back to options" of the upload step, never disabled
backToOptions ==
    /\ inwardMounted
    /\ step = "upload"
    /\ step' = "choose"
    /\ UNCHANGED <<file, extracting, extractingRef, extractError, extractionProgress,
                   vendor, poNumber, articles, editablePOs, extractRun, requests,
                   pagesRequested, inwardMounted, settersAfterUnmount>>

\* a file is picked; only a PDF is taken
handleFileSelect(isPdf) ==
    /\ inwardMounted
    /\ step = "upload"
    /\ IF isPdf THEN file' = TRUE /\ extractError' = ""
                ELSE UNCHANGED <<file, extractError>>
    /\ UNCHANGED <<step, extracting, extractingRef, extractionProgress,
                   vendor, poNumber, articles, editablePOs, extractRun, requests,
                   pagesRequested, inwardMounted, settersAfterUnmount>>

\* the button "Remove" under the selected file
removeFile ==
    /\ inwardMounted
    /\ step = "upload"
    /\ file
    /\ file' = FALSE
    /\ UNCHANGED <<step, extracting, extractingRef, extractError, extractionProgress,
                   vendor, poNumber, articles, editablePOs, extractRun, requests,
                   pagesRequested, inwardMounted, settersAfterUnmount>>

\* handleExtract with `if (!file) return`: no guard on extractingRef
handleExtractUnguarded ==
    /\ inwardMounted
    /\ step = "upload"
    /\ file
    /\ extractingRef' = TRUE
    /\ extracting' = TRUE
    /\ extractError' = ""
    /\ extractionProgress' =
           [phase |-> "uploading", currentPage |-> 0, totalPages |-> 0]
    /\ extractRun' = [IdleExtract EXCEPT !.pc = "upload"]
    /\ requests' = Sent(requests, UploadRequest)
    /\ pagesRequested' = <<>>
    /\ UNCHANGED <<step, file, vendor, poNumber, articles, editablePOs,
                   inwardMounted, settersAfterUnmount>>

\* a click on "Extract PO Data"; the button is disabled without a file, and
\* by extracting only once the component has rendered again, so that a
\* second click may still get here
handleExtract ==
    /\ inwardMounted
    /\ step = "upload"
    /\ file
    /\ IF ~file \/ extractingRef
       THEN UNCHANGED <<extractingRef, extracting, extractError, extractionProgress,
                        extractRun, requests, pagesRequested>>
       ELSE /\ extractingRef' = TRUE
            /\ extracting' = TRUE
            /\ extractError' = ""
            /\ extractionProgress' =
                   [phase |-> "uploading", currentPage |-> 0, totalPages |-> 0]
            /\ extractRun' = [IdleExtract EXCEPT !.pc = "upload"]
            /\ requests' = Sent(requests, UploadRequest)
            /\ pagesRequested' = <<>>
    /\ UNCHANGED <<step, file, vendor, poNumber, articles, editablePOs,
                   inwardMounted, settersAfterUnmount>>

\* uploadPOForExtraction resolves with total_pages pages: the first page is
\* requested, or, the loop running over no page, the run ends at once
UploadResolved(total_pages) ==
    /\ BagIn(UploadRequest, requests)
    /\ IF total_pages >= 1
       THEN /\ extractRun' = [extractRun EXCEPT !.pc = "page",
                                                !.total_pages = total_pages,
                                                !.page = 1]
            /\ requests' = Sent(Answered(requests, UploadRequest), PageRequest(1))
            /\ pagesRequested' = <<1>>
            /\ Progressed([phase |-> "extracting", currentPage |-> 1,
                           totalPages |-> total_pages])
            /\ UNCHANGED <<step, vendor, poNumber, articles, editablePOs,
                           extractError, extracting, extractingRef>>
       ELSE /\ extractRun' = [extractRun EXCEPT !.pc = "none"]
            /\ requests' = Answered(requests, UploadRequest)
                               (+) SetToBag(ExtractOutcome(<<>>).lookups)
            /\ Finished(ExtractOutcome(<<>>))
            /\ UNCHANGED pagesRequested
    /\ UNCHANGED <<file, inwardMounted>>

\* uploadPOForExtraction rejects: the outer catch and the finally block
UploadRejected ==
    /\ BagIn(UploadRequest, requests)
    /\ extractRun' = [extractRun EXCEPT !.pc = "none"]
    /\ requests' = Answered(requests, UploadRequest)
    /\ Finished(ExtractFailed("Failed to extract PO data"))
    /\ UNCHANGED <<file, pagesRequested, inwardMounted>>

\* the request of the current page has been answered and result pushed: the
\* next page is requested, or after the last page the results are merged
PageDone(result, failed) ==
    LET page == extractRun.page
        pages == Append(extractRun.pageResults, result)
        warned == IF failed THEN extractRun.warned \cup {page}
                            ELSE extractRun.warned
    IN  /\ BagIn(PageRequest(page), requests)
        /\ IF page < extractRun.total_pages
           THEN /\ extractRun' = [extractRun EXCEPT !.page = page + 1,
                                                    !.pageResults = pages,
                                                    !.warned = warned]
                /\ requests' = Sent(Answered(requests, PageRequest(page)),
                                     PageRequest(page + 1))
                /\ pagesRequested' = Append(pagesRequested, page + 1)
                /\ Progressed([phase |-> "extracting", currentPage |-> page + 1,
                               totalPages |-> extractRun.total_pages])
                /\ UNCHANGED <<step, vendor, poNumber, articles, editablePOs,
                               extractError, extracting, extractingRef>>
           ELSE /\ extractRun' = [extractRun EXCEPT !.pc = "none",
                                                    !.pageResults = pages,
                                                    !.warned = warned]
                /\ requests' = Answered(requests, PageRequest(page))
                                   (+) SetToBag(ExtractOutcome(pages).lookups)
                /\ Finished(ExtractOutcome(pages))
                /\ UNCHANGED pagesRequested
        /\ UNCHANGED <<file, inwardMounted>>

\* extractPOPage resolves
PageResolved(result) ==
    /\ result \in PageResponses(extractRun.page)
    /\ PageDone(result, FALSE)

\* extractPOPage rejects and the outer catch takes it: the run ends with the
\* pages after this one never requested
PageRejectedAborts ==
    /\ BagIn(PageRequest(extractRun.page), requests)
    /\ extractRun' = [extractRun EXCEPT !.pc = "none"]
    /\ requests' = Answered(requests, PageRequest(extractRun.page))
    /\ Finished(ExtractFailed("Failed to extract PO data"))
    /\ UNCHANGED <<file, pagesRequested, inwardMounted>>

\* extractPOPage rejects: the inner catch warns on the console and pushes a
\* page without purchase orders
PageRejected == PageDone(FailedPage(extractRun.page), TRUE)

\* the article after its lookup answered with sku_id (0: no sku_id in the
\* result)
Looked(a, sku_id) ==
    IF sku_id # 0
    THEN [a EXCEPT !.sku_id = sku_id, !.skuStatus = "resolved"]
    ELSE [a EXCEPT !.skuStatus = "error",
                   !.skuError = "No matching SKU - select manually"]

\* the article after its lookup failed
LookupFailed(a) == [a EXCEPT !.skuStatus = "error", !.skuError = "Lookup failed"]

\* prev.map((a, i) => (i === index ? change(a) : a))
MapAt(as, index, change(_)) ==
    [k \in 1 .. Len(as) |-> IF k = index + 1 THEN change(as[k]) ELSE as[k]]

\* the setArticles / setEditablePOs of lookupSKU and lookupMultiPOSKU after
\* their await, for the lookup r
LookupApplied(r, change(_)) ==
    /\ BagIn(r, requests)
    /\ r.kind = "sku"
    /\ requests' = Answered(requests, r)
    /\ IF ~inwardMounted
       THEN settersAfterUnmount' = TRUE /\ UNCHANGED <<articles, editablePOs>>
       ELSE /\ UNCHANGED settersAfterUnmount
            /\ IF r.po = NoIndex
               THEN /\ articles' = MapAt(articles, r.art, change)
                    /\ UNCHANGED editablePOs
               ELSE /\ editablePOs' =
                           [i \in 1 .. Len(editablePOs) |->
                                IF i = r.po + 1
                                THEN [editablePOs[i] EXCEPT
                                         !.articles = MapAt(@, r.art, change)]
                                ELSE editablePOs[i]]
                    /\ UNCHANGED articles
    /\ UNCHANGED <<step, file, extracting, extractingRef, extractError,
                   extractionProgress, vendor, poNumber, extractRun,
                   pagesRequested, inwardMounted>>

\* skuLookup resolves in a lookup written with setArticles(articles.map(...)):
\* the articles are those of the render that started the lookup
SkuResolvedStale(r, sku_id) ==
    /\ BagIn(r, requests)
    /\ r.kind = "sku"
    /\ requests' = Answered(requests, r)
    /\ IF ~inwardMounted
       THEN settersAfterUnmount' = TRUE /\ UNCHANGED <<articles, editablePOs>>
       ELSE /\ UNCHANGED settersAfterUnmount
            /\ IF r.po = NoIndex
               THEN /\ articles' = MapAt(LoadingArticles(articles), r.art,
                                         LAMBDA a : Looked(a, sku_id))
                    /\ UNCHANGED editablePOs
               ELSE /\ editablePOs' =
                           [i \in 1 .. Len(editablePOs) |->
                                [editablePOs[i] EXCEPT
                                    !.articles =
                                        IF i = r.po + 1
                                        THEN MapAt(LoadingArticles(@), r.art,
                                                   LAMBDA a : Looked(a, sku_id))
                                        ELSE LoadingArticles(@)]]
                    /\ UNCHANGED articles
    /\ UNCHANGED <<step, file, extracting, extractingRef, extractError,
                   extractionProgress, vendor, poNumber, extractRun,
                   pagesRequested, inwardMounted>>

\* skuLookup resolves, with or without a sku_id
SkuResolved(r, sku_id) == LookupApplied(r, LAMBDA a : Looked(a, sku_id))

\* skuLookup rejects
SkuRejected(r) == LookupApplied(r, LookupFailed)

\* router.push away from the page: the state of the component is gone
InwardGone ==
    /\ inwardMounted' = FALSE
    /\ step' = "choose"
    /\ file' = FALSE
    /\ extracting' = FALSE
    /\ extractingRef' = FALSE
    /\ extractError' = ""
    /\ extractionProgress' = NoProgress
    /\ vendor' = ""
    /\ poNumber' = <<>>
    /\ articles' = <<>>
    /\ editablePOs' = <<>>

\* the back arrow of the header, at any time: the requests of the page and
\* its handleExtract invocation go on
leaveInward ==
    /\ inwardMounted
    /\ InwardGone
    /\ UNCHANGED <<extractRun, requests, pagesRequested, settersAfterUnmount>>

----------------------------------------------------------------------------
(* Specification of the extraction flow                                    *)

InitExtract == TransferInit /\ MergeIdle /\ InwardInit /\ RestInit

NextExtract ==
    \/ chooseUpload /\ UNCHANGED <<transferVars, mergeVars, submitVars, restVars>>
    \/ backToOptions /\ UNCHANGED <<transferVars, mergeVars, submitVars, restVars>>
    \/ (\E isPdf \in BOOLEAN : handleFileSelect(isPdf))
           /\ UNCHANGED <<transferVars, mergeVars, submitVars, restVars>>
    \/ removeFile /\ UNCHANGED <<transferVars, mergeVars, submitVars, restVars>>
    \/ handleExtract /\ UNCHANGED <<transferVars, mergeVars, submitVars, restVars>>
    \/ (\E total_pages \in 0 .. MaxPages : UploadResolved(total_pages))
           /\ UNCHANGED <<transferVars, mergeVars, submitVars, restVars>>
    \/ UploadRejected /\ UNCHANGED <<transferVars, mergeVars, submitVars, restVars>>
    \/ (\E result \in PageResponses(extractRun.page) : PageResolved(result))
           /\ UNCHANGED <<transferVars, mergeVars, submitVars, restVars>>
    \/ PageRejected /\ UNCHANGED <<transferVars, mergeVars, submitVars, restVars>>
    \/ (\E r \in BagToSet(requests), sku_id \in SkuIds \cup {0} :
            SkuResolved(r, sku_id))
           /\ UNCHANGED <<transferVars, mergeVars, submitVars, restVars>>
    \/ (\E r \in BagToSet(requests) : SkuRejected(r))
           /\ UNCHANGED <<transferVars, mergeVars, submitVars, restVars>>
    \/ leaveInward /\ UNCHANGED <<transferVars, mergeVars, submitVars, restVars>>

SpecExtract == InitExtract /\ [][NextExtract]_vars

----------------------------------------------------------------------------
(* NewInwardPage: transaction numbers                                      *)

\* A Date is its time value, here counted from 2024-01-01T00:00:00Z and kept
\* as whole seconds s and milliseconds ms of the second.

\* the factor of `i * 1000`
MsPerSecond == 1000

\* time value t plus d milliseconds
PlusMs(t, d) ==
    [s |-> t.s + ((t.ms + d) \div MsPerSecond), ms |-> (t.ms + d) % MsPerSecond]

\* the time value of hour : minute : second . ms UTC on day number day of the
\* count (day 0 is 2024-01-01)
Instant(day, hour, minute, second, ms) ==
    [s |-> ((day * 24 + hour) * 60 + minute) * 60 + second, ms |-> ms]

\* the local zone: one hour ahead of UTC until clocks are set back at
\* 2024-10-27T01:00:00Z, on UTC from then on
FallBack == Instant(300, 1, 0, 0, 0)
LocalTZA(t) == IF t.s < FallBack.s THEN 3600 ELSE 0

IsLeapYear(y) == (y % 4 = 0 /\ y % 100 # 0) \/ y % 400 = 0
DaysInYear(y) == IF IsLeapYear(y) THEN 366 ELSE 365
DaysInMonth(y, m) ==
    CASE m = 2 -> IF IsLeapYear(y) THEN 29 ELSE 28
      [] m \in {4, 6, 9, 11} -> 30
      [] OTHER -> 31

\* year and day of the year of the day that lies days after 1 January of y
RECURSIVE YearFromDays(_, _)
YearFromDays(y, days) ==
    IF days >= DaysInYear(y) THEN YearFromDays(y + 1, days - DaysInYear(y))
                             ELSE [year |-> y, day |-> days]

\* month and date of the day that lies days after the first of month m of y
RECURSIVE MonthFromDays(_, _, _)
MonthFromDays(y, m, days) ==
    IF days >= DaysInMonth(y, m) THEN MonthFromDays(y, m + 1, days - DaysInMonth(y, m))
                                 ELSE [month |-> m, date |-> days + 1]

\* getFullYear, getMonth() + 1, getDate, getHours, getMinutes, getSeconds of
\* the Date d, in local time
LocalFields(d) ==
    LET local == d.s + LocalTZA(d)
        yd == YearFromDays(2024, local \div 86400)
        md == MonthFromDays(yd.year, 1, yd.day)
        inDay == local % 86400
    IN  [year |-> yd.year, month |-> md.month, date |-> md.date,
         hours |-> inDay \div 3600, minutes |-> (inDay % 3600) \div 60,
         seconds |-> inDay % 60]

Digit(d) ==
    CASE d = 0 -> "0" [] d = 1 -> "1" [] d = 2 -> "2" [] d = 3 -> "3"
      [] d = 4 -> "4" [] d = 5 -> "5" [] d = 6 -> "6" [] d = 7 -> "7"
      [] d = 8 -> "8" [] d = 9 -> "9"

\* String(n) for n >= 0
RECURSIVE NumberText(_)
NumberText(n) ==
    IF n < 10 THEN <<Digit(n)>> ELSE Append(NumberText(n \div 10), Digit(n % 10))

\* text.padStart(2, "0")
PadStart2(text) == IF Len(text) < 2 THEN <<"0">> \o text ELSE text

\* generateTxnNo(d)
generateTxnNo(d) ==
    LET f == LocalFields(d)
    IN  <<"T", "R", "-">> \o NumberText(f.year)
            \o PadStart2(NumberText(f.month)) \o PadStart2(NumberText(f.date))
            \o PadStart2(NumberText(f.hours)) \o PadStart2(NumberText(f.minutes))
            \o PadStart2(NumberText(f.seconds))

\* new Date(baseTime + i): the offset of PO i is i milliseconds
TxnTimeOffsetInMs(baseTime, i) == PlusMs(baseTime, i)

\* new Date(baseTime + i * 1000)
TxnTime(baseTime, i) == PlusMs(baseTime, i * MsPerSecond)

\* what Date.now() may answer when "Submit All" is clicked: two seconds
\* before local midnight of 29 February 2024, one second before the local new
\* year, one second before the clocks are set back, on a morning in January,
\* one second before local midnight of 1 March 2025
BaseTimes ==
    {Instant(58, 22, 59, 58, 500), Instant(365, 23, 59, 59, 0),
     Instant(300, 0, 59, 59, 999), Instant(10, 8, 4, 5, 1),
     Instant(424, 23, 59, 59, 0)}

----------------------------------------------------------------------------
(* NewInwardPage: handleSubmitMulti                                        *)

\* submissions of the batch one visit of the page makes
MaxSubmissions == 2

\* createInward for the PO at index i of the batch
CreateRequest(i) == [kind |-> "create", page |-> 0, po |-> i, art |-> 0]

\* the CreateInwardPayload of po under txnNo (an empty po_number is sent as
\* undefined)
Payload(po, txnNo) ==
    [transaction_no |-> txnNo,
     po_number |-> po.po_number,
     articles |-> [k \in 1 .. Len(po.articles) |->
                      [transaction_no |-> txnNo,
                       item_description |-> po.articles[k].item_description]]]

\* one iteration of the loop of run up to its await: the create request of
\* PO run.i is sent
Created(run) ==
    createLog' = Append(createLog,
        [run |-> run.run, i |-> run.i,
         payload |-> Payload(run.POs[run.i + 1],
                             generateTxnNo(TxnTime(run.baseTime, run.i)))])

\* time value t lies before time value u
Before(t, u) == t.s < u.s \/ (t.s = u.s /\ t.ms < u.ms)

\* a click on "Submit All (n)" when Date.now() is now, later than at the
\* click before; the loop runs over the editablePOs of the render the click
\* was made in
handleSubmitMulti(now) ==
    /\ inwardMounted
    /\ step = "multi-po"
    /\ ~submitting
    /\ Len(editablePOs) # 0
    /\ submitRun.run < MaxSubmissions
    /\ Before(submitRun.baseTime, now)
    /\ submitting' = TRUE
    /\ submitError' = ""
    /\ multiSubmitProgress' = 0
    /\ LET run == [pc |-> "create", i |-> 0, baseTime |-> now,
                   POs |-> editablePOs, run |-> submitRun.run + 1]
       IN  /\ submitRun' = run
           /\ Created(run)
           /\ requests' = Sent(requests, CreateRequest(0))
    /\ UNCHANGED <<step, file, extracting, extractingRef, extractError,
                   extractionProgress, vendor, poNumber, articles, editablePOs,
                   extractRun, pagesRequested, inwardMounted, settersAfterUnmount>>

\* createInward resolves: the progress is set and the next PO is sent, or
\* after the last PO the finally block runs and router.push leaves the page
CreateResolved ==
    LET i == submitRun.i
        next == [submitRun EXCEPT !.i = i + 1]
    IN  /\ submitRun.pc = "create"
        /\ BagIn(CreateRequest(i), requests)
        /\ IF i + 1 < Len(submitRun.POs)
           THEN /\ submitRun' = next
                /\ Created(next)
                /\ requests' = Sent(Answered(requests, CreateRequest(i)),
                                     CreateRequest(i + 1))
                /\ IF inwardMounted
                   THEN multiSubmitProgress' = i + 1 /\ UNCHANGED settersAfterUnmount
                   ELSE settersAfterUnmount' = TRUE /\ UNCHANGED multiSubmitProgress
                /\ UNCHANGED <<step, file, extracting, extractingRef, extractError,
                               extractionProgress, vendor, poNumber, articles,
                               editablePOs, inwardMounted, submitting, submitError>>
           ELSE /\ submitRun' = [next EXCEPT !.pc = "none"]
                /\ requests' = Answered(requests, CreateRequest(i))
                /\ UNCHANGED <<createLog, submitError>>
                /\ IF inwardMounted
                   THEN /\ InwardGone
                        /\ submitting' = FALSE
                        /\ multiSubmitProgress' = 0
                        /\ UNCHANGED settersAfterUnmount
                   ELSE /\ settersAfterUnmount' = TRUE
                        /\ UNCHANGED <<step, file, extracting, extractingRef,
                                       extractError, extractionProgress, vendor,
                                       poNumber, articles, editablePOs, inwardMounted,
                                       submitting, multiSubmitProgress>>
        /\ UNCHANGED <<extractRun, pagesRequested>>

\* createInward rejects: the catch and the finally block; the POs after this
\* one are not sent
CreateRejected ==
    /\ submitRun.pc = "create"
    /\ BagIn(CreateRequest(submitRun.i), requests)
    /\ submitRun' = [submitRun EXCEPT !.pc = "none"]
    /\ requests' = Answered(requests, CreateRequest(submitRun.i))
    /\ IF inwardMounted
       THEN /\ submitError' = "Failed to create entries"
            /\ submitting' = FALSE
            /\ UNCHANGED settersAfterUnmount
       ELSE /\ settersAfterUnmount' = TRUE
            /\ UNCHANGED <<submitError, submitting>>
    /\ UNCHANGED <<step, file, extracting, extractingRef, extractError,
                   extractionProgress, vendor, poNumber, articles, editablePOs,
                   extractRun, pagesRequested, inwardMounted, multiSubmitProgress,
                   createLog>>

\* the remove button of the PO at index poIdx of the batch
removeEditablePO(index) ==
    /\ inwardMounted
    /\ step = "multi-po"
    /\ index < Len(editablePOs)
    /\ editablePOs' = SubSeq(editablePOs, 1, index)
                          \o SubSeq(editablePOs, index + 2, Len(editablePOs))
    /\ UNCHANGED <<step, file, extracting, extractingRef, extractError,
                   extractionProgress, vendor, poNumber, articles, extractRun,
                   requests, pagesRequested, inwardMounted, settersAfterUnmount,
                   submitVars>>

----------------------------------------------------------------------------
(* Specification of the submission of a batch                              *)

\* POs of the largest batch
MaxPOs == 3

\* a PDF of n pages, page k holding one PO whose number is the text of k
NumberedPages(n) ==
    [k \in 1 .. n |->
        [page_num |-> k, listed |-> TRUE,
         purchase_orders |->
             <<EntryOf([po_number |-> S(NumberText(k)), content |-> ContentFirst], k)>>]]

\* the batch handleExtract makes of pages, every lookup returned with a SKU
ResolvedBatch(pages) ==
    LET pos == mergePageResults(pages).purchase_orders
    IN  [i \in 1 .. Len(pos) |->
            [EditableOf(pos[i]) EXCEPT
                !.articles = [k \in 1 .. Len(@) |-> Looked(@[k], 7)]]]

\* the page on the batch review of an extracted PDF of two or more POs
InitSubmit ==
    /\ TransferInit
    /\ RestInit
    /\ MergeIdle
    /\ \E n \in 2 .. MaxPOs :
           /\ editablePOs = ResolvedBatch(NumberedPages(n))
           /\ extractRun = [IdleExtract EXCEPT !.total_pages = n, !.page = n,
                                               !.pageResults = NumberedPages(n)]
           /\ pagesRequested = [k \in 1 .. n |-> k]
    /\ step = "multi-po"
    /\ file = TRUE
    /\ extracting = FALSE
    /\ extractingRef = FALSE
    /\ extractError = ""
    /\ extractionProgress = NoProgress
    /\ vendor = ""
    /\ poNumber = <<>>
    /\ articles = <<>>
    /\ requests = EmptyBag
    /\ inwardMounted = TRUE
    /\ settersAfterUnmount = FALSE
    /\ submitting = FALSE
    /\ submitError = ""
    /\ multiSubmitProgress = 0
    /\ submitRun = IdleSubmit
    /\ createLog = <<>>

NextSubmit ==
    \/ (\E now \in BaseTimes : handleSubmitMulti(now))
           /\ UNCHANGED <<transferVars, mergeVars, restVars>>
    \/ CreateResolved /\ UNCHANGED <<transferVars, mergeVars, restVars>>
    \/ CreateRejected /\ UNCHANGED <<transferVars, mergeVars, restVars>>
    \/ (\E index \in 0 .. Len(editablePOs) - 1 : removeEditablePO(index))
           /\ UNCHANGED <<transferVars, mergeVars, restVars>>
    \/ leaveInward /\ UNCHANGED <<transferVars, mergeVars, submitVars, restVars>>

SpecSubmit == InitSubmit /\ [][NextSubmit]_vars

----------------------------------------------------------------------------
(* Claims about the transfer-in view                                       *)

BoxPending(b) == ~BoxMatched(b)
LinePending(i) == ~LineMatched(i) /\ ~LineIssued(i)
NoPending ==
    /\ \A k \in 1 .. totalBoxes : ~BoxPending(boxes[k])
    /\ \A i \in LineIndices : ~LinePending(i)

\* C1: with the page mounted and no request in flight, the confirm-receipt
\* action is enabled if and only if the loaded transfer has at least one item
\* and no box or article line is Pending.
C1_ConfirmEnabledIffNoPending ==
    (mounted /\ inflight = EmptyBag) =>
        (ConfirmEnabled <=> (totalItems > 0 /\ NoPending))

\* C2: no article line of the loaded transfer is at once Acknowledged (true
\* in the acknowledged map) and carrying issue data (an entry in the issue
\* map).
C2_NeverAcknowledgedAndIssued ==
    \A i \in LineIndices : ~(LineMatched(i) /\ LineIssued(i))

\* C3: the bulk acknowledge-all action moves every Pending box and line to
\* Acknowledged and leaves every already-Issued line as it was: Issued, not
\* Acknowledged, with its actual_qty, actual_total_weight and remarks.
C3_AcknowledgeAllSkipsIssued ==
    [][handleAcknowledgeAll =>
          /\ \A k \in 1 .. totalBoxes :
                 BoxPending(boxes[k]) => Truthy(boxesMatchMap', boxes[k].id)
          /\ \A i \in LineIndices :
                 /\ LinePending(i) => Truthy(linesMatchMap', i)
                 /\ LineIssued(i) =>
                        /\ ~Truthy(linesMatchMap', i)
                        /\ i \in DOMAIN linesIssueMap'
                        /\ linesIssueMap'[i] = linesIssueMap[i]]_vars

\* C4: immediately after a successful transfer load every box and every
\* article line of the newly loaded transfer is Pending: not acknowledged and
\* without issue data.
C4_LoadedTransferAllPending ==
    [][(\E r \in BagToSet(inflight) : LoadResolved(r)) =>
          /\ \A k \in 1 .. Len(transferData'.boxes) :
                 ~Truthy(boxesMatchMap', transferData'.boxes[k].id)
          /\ \A i \in 0 .. (Len(transferData'.lines) - 1) :
                 /\ ~Truthy(linesMatchMap', i)
                 /\ i \notin DOMAIN linesIssueMap']_vars

\* the records of a request body that stand for box b / for line i
RecordsOfBox(body, b) ==
    {j \in 1 .. Len(body.scanned_boxes) :
         body.scanned_boxes[j].transfer_out_box_id = <<b.id>>}
RecordsOfLine(body, i) ==
    {j \in 1 .. Len(body.scanned_boxes) :
         body.scanned_boxes[j].box_number = <<"A", "R", "T", "-">> \o NumToChars(i + 1)}

HasIssue(rec) == "issue" \in DOMAIN rec /\ rec.issue # <<>>

\* the body describes the reconciliation state exactly
BodyMatchesState(body) ==
    /\ Len(body.scanned_boxes) = totalItems
    /\ \A k \in 1 .. totalBoxes :
           /\ Cardinality(RecordsOfBox(body, boxes[k])) = 1
           /\ \A j \in RecordsOfBox(body, boxes[k]) :
                  body.scanned_boxes[j].is_matched /\ ~HasIssue(body.scanned_boxes[j])
    /\ \A i \in LineIndices :
           /\ Cardinality(RecordsOfLine(body, i)) = 1
           /\ \A j \in RecordsOfLine(body, i) :
                  LET rec == body.scanned_boxes[j]
                  IN  IF LineIssued(i)
                      THEN /\ ~rec.is_matched
                           /\ HasIssue(rec)
                           /\ rec.issue[1].actual_qty = linesIssueMap[i].actual_qty
                           /\ rec.issue[1].actual_total_weight =
                                  linesIssueMap[i].actual_total_weight
                           /\ rec.issue[1].remarks =
                                  (IF linesIssueMap[i].remarks = <<>>
                                   THEN <<>> ELSE <<linesIssueMap[i].remarks>>)
                      ELSE rec.is_matched /\ ~HasIssue(rec)

SameExcept(map, map2, k) ==
    /\ DOMAIN map \ {k} = DOMAIN map2 \ {k}
    /\ \A x \in DOMAIN map \ {k} : map[x] = map2[x]

ConfirmsInFlight(bag) ==
    BagCardinality([r \in {x \in BagToSet(bag) : x.kind = "confirm"} |-> bag[r]])

\* C7: when a confirm-receipt request fails, the acknowledged and issued
\* state of every box and line is left as it is, the busy flag is cleared so
\* that a fully resolved transfer can be confirmed again, and the failure
\* sends no request; confirm requests are only ever sent by the confirm
\* action.
C7_ConfirmFailureKeepsState ==
    [][/\ (\E r \in BagToSet(inflight) : ConfirmRejected(r)) =>
              /\ UNCHANGED <<transferData, boxesMatchMap, linesMatchMap, linesIssueMap>>
              /\ ~loading'
              /\ (transferData # Null /\ allMatched) => ConfirmEnabled'
              /\ BagCardinality(inflight') < BagCardinality(inflight)
       /\ ConfirmsInFlight(inflight') > ConfirmsInFlight(inflight)
              => handleConfirmReceipt]_vars

\* a confirm request has just failed and confirm is available again with
\* every item still resolved
C7_Witness ==
    /\ toast = "Failed to confirm transfer receipt"
    /\ ConfirmEnabled
    /\ NoPending

\* C8: when a transfer lookup fails, the view is left without a loaded
\* transfer: zero boxes, zero lines, confirm disabled.
C8_FailedLookupLeavesNoTransfer ==
    [][(\E r \in BagToSet(inflight) : LoadRejected(r)) =>
          /\ transferData' = Null
          /\ totalBoxes' = 0
          /\ totalLines' = 0
          /\ ~ConfirmEnabled']_vars

\* a lookup has just failed on a page that had a transfer loaded before
C8_Witness ==
    /\ mounted
    /\ toast = "Failed to load transfer details"
    /\ transferData = Null
    /\ boxesMatchMap # EmptyMap

----------------------------------------------------------------------------
(* Claims about mergePageResults                                           *)

\* the entry the next iteration runs on
CurrentPO == pageResults[pageIdx].purchase_orders[poIdx]

\* the trimmed PO number of a record, <<>> when it has none
KeyText(po) == IF po.po_number.t = "string" THEN Trim(po.po_number.s) ELSE <<>>

\* after is before with the articles of po appended and with the fill fields
\* of po taken where, and only where, before has none
ContinuedBy(before, after, po) ==
    /\ after.articles = before.articles \o po.articles
    /\ after.po_number = before.po_number
    /\ \A k \in 1 .. Len(fillFields) :
           LET f == fillFields[k]
           IN  /\ JsTruthy(before[f]) => after[f] = before[f]
               /\ (~JsTruthy(before[f]) /\ JsTruthy(po[f])) => after[f] = po[f]
               /\ after[f] # before[f] => after[f] = po[f]

\* C9: when the trimmed PO number of an entry is the key of a PO already
\* emitted, no PO is created, the articles of the entry are appended in order
\* after those of that PO, and each of the ten backfill fields keeps a
\* populated value, taking the value of the entry only where it has none.
C9_SameKeyMergesIntoExisting ==
    [][MergeIteration =>
          \A idx \in 1 .. Len(allPOs) :
              (KeyText(CurrentPO) # <<>> /\ KeyText(allPOs[idx]) = KeyText(CurrentPO)) =>
                  /\ Len(allPOs') = Len(allPOs)
                  /\ ContinuedBy(allPOs[idx], allPOs'[idx], CurrentPO)
                  /\ \A j \in 1 .. Len(allPOs) : j # idx => allPOs'[j] = allPOs[j]]_vars

\* a PO has just been continued by a later page: the supplier of its first
\* page is kept, the customer of the later page is filled in, and the
\* articles of both are there
C9_Witness ==
    /\ branch = "same-key"
    /\ \E idx \in 1 .. Len(allPOs) :
           /\ allPOs[idx].supplier_name = S("Acme")
           /\ allPOs[idx].customer_name = S("Cust")
           /\ Len(allPOs[idx].articles) = 3

\* C10: an entry without PO number but with articles is merged into the PO
\* that is last in the output at that moment, its articles appended and only
\* falsy fields backfilled, every other PO being left alone; when no PO has
\* been emitted it becomes the first PO record.
C10_OrphanJoinsLastPO ==
    [][MergeIteration =>
          ((KeyText(CurrentPO) = <<>> /\ CurrentPO.articles # <<>>) =>
              IF allPOs # <<>>
              THEN /\ Len(allPOs') = Len(allPOs)
                   /\ ContinuedBy(allPOs[Len(allPOs)], allPOs'[Len(allPOs)], CurrentPO)
                   /\ \A j \in 1 .. (Len(allPOs) - 1) : allPOs'[j] = allPOs[j]
              ELSE allPOs' = <<CurrentPO>>)]_vars

\* an orphan (fourth entry) has just joined the second PO although the first
\* PO was the one merged into right before it (by the third entry)
C10_Witness ==
    /\ branch = "orphan-append"
    /\ Len(allPOs) = 2
    /\ allPOs[1].articles[Len(allPOs[1].articles)].item_description[1] = 3
    /\ allPOs[2].articles[Len(allPOs[2].articles)].item_description[1] = 4

\* the entries of all pages that list any, in page order then entry order
RECURSIVE EntriesOf(_)
EntriesOf(pages) ==
    IF pages = <<>> THEN <<>>
    ELSE (IF Head(pages).listed THEN Head(pages).purchase_orders ELSE <<>>)
             \o EntriesOf(Tail(pages))

\* the keys of the entries in the order in which each is first seen, after
\* acc; a leading orphan (articles but no number, nothing seen before it)
\* stands in the list as the empty key
RECURSIVE FirstSeenKeys(_, _)
FirstSeenKeys(entries, acc) ==
    IF entries = <<>> THEN acc
    ELSE LET po == Head(entries)
             key == KeyText(po)
             seenBefore == \E i \in 1 .. Len(acc) : acc[i] = key
         IN  FirstSeenKeys(Tail(entries),
                           IF key # <<>>
                           THEN (IF seenBefore THEN acc ELSE Append(acc, key))
                           ELSE IF po.articles # <<>> /\ acc = <<>>
                                THEN <<key>>
                                ELSE acc)

\* C11: the output never holds two POs with the same trimmed non-empty PO
\* number, and the POs of the returned output stand in the order in which
\* their key (for a leading orphan, the orphan entry) was first seen in page
\* order then entry order.
C11_OnePOPerKeyInFirstSeenOrder ==
    /\ \A i, j \in 1 .. Len(allPOs) :
           (i # j /\ KeyText(allPOs[i]) # <<>>) =>
               KeyText(allPOs[i]) # KeyText(allPOs[j])
    /\ branch = "returned" =>
           [i \in 1 .. Len(allPOs) |-> KeyText(allPOs[i])]
               = FirstSeenKeys(EntriesOf(pageResults), <<>>)

\* a merge has returned three POs: a leading orphan, then two keyed POs the
\* first of which was continued by a later entry
C11_Witness ==
    /\ branch = "returned"
    /\ Len(allPOs) = 3
    /\ KeyText(allPOs[1]) = <<>>
    /\ Len(allPOs[2].articles) = 3

\* entries with neither a PO number nor articles, whatever else they carry
NoiseEntries ==
    {[po_number |-> U, articles |-> <<>>] @@ FieldsNone,
     [po_number |-> S(<<>>), articles |-> <<>>] @@ FieldsSecond,
     [po_number |-> S(<<" ">>), articles |-> <<>>] @@ FieldsFirst}

\* pages that contribute nothing: no list, an empty list, only noise
SkippedPages ==
    {[page_num |-> 0, listed |-> FALSE, purchase_orders |-> <<>>],
     [page_num |-> 0, listed |-> TRUE, purchase_orders |-> <<>>]}
        \cup {[page_num |-> 0, listed |-> TRUE, purchase_orders |-> <<po>>] :
                  po \in NoiseEntries}

\* seq with the elements of run put in after its first i elements
InsertAt(seq, i, run) == SubSeq(seq, 1, i) \o run \o SubSeq(seq, i + 1, Len(seq))

\* one skipped page, or two of them in a row
SkippedRuns ==
    {<<page>> : page \in SkippedPages}
        \cup {<<page, page>> : page \in SkippedPages}

\* pages and entries of an input, counted together
InputSize(pages) == Len(pages) + Len(EntriesOf(pages))

\* the inputs up to this size are compared with all their extensions
MaxExtended == 4

\* every entry of the input is noise
OnlyNoise ==
    \A p \in 1 .. Len(pageResults) :
        \A j \in 1 .. Len(pageResults[p].purchase_orders) :
            /\ KeyText(pageResults[p].purchase_orders[j]) = <<>>
            /\ pageResults[p].purchase_orders[j].articles = <<>>

\* C12: a page without purchase_orders list or with an empty one, and an
\* entry with neither PO number nor articles, contribute nothing.  Wherever
\* the loops stand, running them on such pages or on such an entry leaves
\* allPOs and seenPONumbers as they are; the output a merge returns is also
\* the output for its input with such pages put in at any position, or with
\* such an entry put in at any position of any page (compared for the inputs
\* of up to MaxExtended pages and entries); merging no page, or pages
\* holding nothing but noise, returns no PO.
C12_SkippedPagesAndNoiseContributeNothing ==
    LET st == [POs |-> allPOs, seen |-> seenPONumbers, threw |-> FALSE]
        out == [threw |-> FALSE, purchase_orders |-> allPOs]
    IN  /\ \A run \in SkippedRuns : MergePages(st, run) = st
        /\ \A po \in NoiseEntries : MergeEntry(st, po) = st
        /\ (branch = "returned" /\ InputSize(pageResults) <= MaxExtended) =>
               /\ \A i \in 0 .. Len(pageResults) : \A run \in SkippedRuns :
                      mergePageResults(InsertAt(pageResults, i, run)) = out
               /\ \A p \in 1 .. Len(pageResults) :
                      \A j \in 0 .. Len(pageResults[p].purchase_orders) :
                          \A po \in NoiseEntries :
                              mergePageResults(
                                  [pageResults EXCEPT ![p] =
                                       [listed |-> TRUE,
                                        page_num |-> @.page_num,
                                        purchase_orders |->
                                            InsertAt(@.purchase_orders, j, <<po>>)]])
                                  = out
        /\ (branch = "returned" /\ OnlyNoise) => allPOs = <<>>

\* a merge has returned a PO from an input that holds a noise entry and a
\* page without entries
C12_Witness ==
    /\ branch = "returned"
    /\ allPOs # <<>>
    /\ \E p \in 1 .. Len(pageResults) : pageResults[p].purchase_orders = <<>>
    /\ \E p \in 1 .. Len(pageResults) :
           \E j \in 1 .. Len(pageResults[p].purchase_orders) :
               KeyText(pageResults[p].purchase_orders[j]) = <<>>
                   /\ pageResults[p].purchase_orders[j].articles = <<>>

\* each PO of an output as a page of its own
Wrapped(POs) ==
    [i \in 1 .. Len(POs) |->
         [page_num |-> i, listed |-> TRUE, purchase_orders |-> <<POs[i]>>]]

\* C13: mergePageResults is idempotent: merging the pages made by wrapping
\* each PO of a returned output as its own one-PO page returns the same PO
\* sequence, with the same articles in the same order and the same field
\* values.
C13_MergeIdempotent ==
    branch = "returned" =>
        mergePageResults(Wrapped(allPOs))
            = [threw |-> FALSE, purchase_orders |-> allPOs]

\* a merge has returned two POs, the first of them keyed, continued by a
\* later entry and with a field filled in from it
C13_Witness ==
    /\ branch = "returned"
    /\ Len(allPOs) = 2
    /\ KeyText(allPOs[1]) # <<>>
    /\ Len(allPOs[1].articles) = 3
    /\ allPOs[1].supplier_name = S("Acme")
    /\ allPOs[1].customer_name = S("Cust")

\* the articles of a sequence of entries or POs, one after the other
RECURSIVE ArticlesOf(_)
ArticlesOf(POs) ==
    IF POs = <<>> THEN <<>> ELSE Head(POs).articles \o ArticlesOf(Tail(POs))

IsPrefix(s, t) == Len(s) <= Len(t) /\ SubSeq(t, 1, Len(s)) = s

\* every element of s occurs exactly once in t
EachOnceIn(s, t) ==
    \A i \in 1 .. Len(s) : Cardinality({j \in 1 .. Len(t) : t[j] = s[i]}) = 1

\* C14: every step of a merge pass keeps each emitted PO and the articles it
\* already has as a prefix of its articles, so that articles are only ever
\* appended; when the merge returns, every article of the input entries is
\* exactly once in the output and the output holds as many articles as the
\* input.
C14_ArticlesAppendOnlyAndConserved ==
    [][/\ Len(allPOs') >= Len(allPOs)
       /\ \A i \in 1 .. Len(allPOs) :
              IsPrefix(allPOs[i].articles, allPOs'[i].articles)
       /\ MergeReturn =>
              /\ EachOnceIn(ArticlesOf(EntriesOf(pageResults)), ArticlesOf(allPOs))
              /\ Len(ArticlesOf(allPOs)) = Len(ArticlesOf(EntriesOf(pageResults)))]_vars

\* a merge has returned two POs of three articles each, both of them having
\* grown after they were emitted
C14_Witness ==
    /\ branch = "returned"
    /\ Len(allPOs) = 2
    /\ Len(allPOs[1].articles) = 3
    /\ Len(allPOs[2].articles) = 3

----------------------------------------------------------------------------
(* Claims about the extraction flow                                        *)

\* the requests of one kind awaiting their response, copies counted
InFlight(kind) ==
    LET rs == {r \in BagToSet(requests) : r.kind = kind}
    IN  IF rs = {} THEN 0
        ELSE BagCardinality([r \in rs |-> requests[r]])

\* an invocation of handleExtract has started and not ended
RunInProgress == extractRun.pc # "none"

\* C15: at most one page-extraction request is in flight at any time and none
\* while the upload is; pages are requested in the order 1, 2, ..., each only
\* once the answers of all pages before it are in; an invocation of the
\* extract action while a run is in progress starts no upload and no page
\* request; the guard is set exactly while a run of the mounted page is in
\* progress, so it is released when the run ends, successfully or not.
C15_OnePageRequestAtATime ==
    [][/\ (InFlight("page") + InFlight("upload") <= 1)'
       /\ (\A k \in 1 .. Len(pagesRequested) :
               pagesRequested[k] = k /\ k <= extractRun.total_pages)'
       /\ (InFlight("page") = 1 =>
               /\ BagIn(PageRequest(Len(pagesRequested)), requests)
               /\ Len(extractRun.pageResults) = Len(pagesRequested) - 1)'
       /\ (handleExtract /\ RunInProgress) =>
              /\ requests' = requests
              /\ extractRun' = extractRun
              /\ pagesRequested' = pagesRequested
       /\ (inwardMounted => (extractingRef <=> RunInProgress))']_vars

\* the second page has been requested after the first was answered while the
\* extract button can still be clicked
C15_Witness ==
    /\ inwardMounted /\ step = "upload" /\ file
    /\ extractingRef
    /\ pagesRequested = <<1, 2>>
    /\ BagIn(PageRequest(2), requests)

\* the k-th result of the run is the result of page k, for every k
InPageOrder(pages) == \A k \in 1 .. Len(pages) : pages[k].page_num = k

\* the view state the end of a run over pages leaves on the mounted page
OutcomeApplied(pages) ==
    LET v == ExtractOutcome(pages)
    IN  /\ step' = v.step
        /\ articles' = v.articles
        /\ editablePOs' = v.editablePOs
        /\ extractError' = v.extractError

\* C16: when the extraction request of page k fails the run is not aborted:
\* the result pushed for page k has an empty purchase_orders list, the results
\* of the pages before it are kept, page k + 1 is requested if there is one,
\* and otherwise the merger receives the n results in page order; a run that
\* ends without a rejected upload has collected all its n pages, and a
\* rejected upload ends the run with an error and no page requested.
C16_FailedPageDoesNotAbort ==
    [][LET k == extractRun.page
           n == extractRun.total_pages
           pages == extractRun'.pageResults
       IN  /\ PageRejected =>
                 /\ Len(pages) = k
                 /\ SubSeq(pages, 1, k - 1) = extractRun.pageResults
                 /\ pages[k].page_num = k
                 /\ pages[k].purchase_orders = <<>>
                 /\ k < n => /\ RunInProgress'
                             /\ BagIn(PageRequest(k + 1), requests')
                             /\ extractError' = extractError
                 /\ (k = n /\ inwardMounted) => OutcomeApplied(pages)
           /\ (RunInProgress /\ ~RunInProgress' /\ ~UploadRejected) =>
                 /\ Len(pages) = n
                 /\ InPageOrder(pages)
                 /\ pagesRequested' = [i \in 1 .. n |-> i]
           /\ UploadRejected =>
                 /\ ~RunInProgress'
                 /\ pagesRequested' = <<>>
                 /\ InFlight("page")' = 0
                 /\ inwardMounted => extractError' # "" /\ step' = step]_vars

\* a run of two pages has ended on the review step with the PO of the second
\* page after the request of the first page failed
C16_Witness ==
    /\ ~RunInProgress
    /\ extractRun.warned = {1}
    /\ Len(extractRun.pageResults) = 2
    /\ extractRun.pageResults[1].purchase_orders = <<>>
    /\ extractRun.pageResults[2].purchase_orders # <<>>
    /\ step = "review"
    /\ Len(articles) = 1

\* a run of handleExtract reaches its merge in this step, on the mounted page
RunMerges ==
    /\ inwardMounted
    /\ RunInProgress /\ ~RunInProgress'
    /\ ~UploadRejected

\* the POs mergePageResults returns for pages, none when it throws
MergedPOs(pages) ==
    LET merged == mergePageResults(pages)
    IN  IF merged.threw THEN <<>> ELSE merged.purchase_orders

\* C17: at the end of an extraction run the step reached depends only on the
\* number of merged POs, whatever the step was: one merged PO moves the page
\* to "review" with that PO's articles, more than one moves it to "multi-po"
\* with one editable PO per merged PO, in order, and no merged PO leaves the
\* step unchanged and records an extraction error; the review steps are
\* reached in no other way.
C17_StepFollowsMergedCount ==
    [][LET pos == MergedPOs(extractRun'.pageResults)
       IN  /\ RunMerges =>
                 /\ Len(pos) = 1 =>
                        /\ step' = "review"
                        /\ poNumber' = PoNumberText(pos[1])
                        /\ Len(articles') = Len(pos[1].articles)
                        /\ extractError' = ""
                 /\ Len(pos) > 1 =>
                        /\ step' = "multi-po"
                        /\ Len(editablePOs') = Len(pos)
                        /\ \A i \in 1 .. Len(pos) :
                               /\ editablePOs'[i].po_number = PoNumberText(pos[i])
                               /\ Len(editablePOs'[i].articles) = Len(pos[i].articles)
                        /\ extractError' = ""
                 /\ Len(pos) = 0 =>
                        /\ step' = step
                        /\ extractError' # ""
                        /\ articles' = articles /\ editablePOs' = editablePOs
           /\ (step' # step /\ step' \in {"review", "multi-po"}) => RunMerges]_vars

\* a run has ended on the batch review with the two POs of its two pages
C17_Witness ==
    /\ ~RunInProgress
    /\ step = "multi-po"
    /\ Len(editablePOs) = 2
    /\ editablePOs[1].po_number # editablePOs[2].po_number
    /\ Len(MergedPOs(extractRun.pageResults)) = 2

\* a run has ended without a merged PO: the step is kept, the error recorded
C17_NoPOReached ==
    /\ ~RunInProgress
    /\ step = "choose"
    /\ extractError # ""
    /\ Len(extractRun.pageResults) = 2

\* a run has ended in the TypeError of the merge
C17_ThrowReached == extractError = "Cannot read properties of undefined"

\* the articles on the page, each under the lookup request made for it
ArticleKeys ==
    {SkuRequest(NoIndex, k - 1) : k \in 1 .. Len(articles)}
        \cup UNION {{SkuRequest(i - 1, j - 1) : j \in 1 .. Len(editablePOs[i].articles)} :
                    i \in 1 .. Len(editablePOs)}

ArticleAt(as, POs, r) ==
    IF r.po = NoIndex THEN as[r.art + 1] ELSE POs[r.po + 1].articles[r.art + 1]

\* the successors a status has while the user edits nothing
NextStatuses(status) ==
    CASE status = "idle" -> {"idle", "loading"}
      [] status = "loading" -> {"loading", "resolved", "error"}
      [] OTHER -> {status}

\* C18: the lookups of all articles of an extracted PO are started in the
\* step that ends the run, without waiting for one another, every article
\* going from idle to loading; on the mounted page an article is loading
\* exactly while its lookup is in flight, so that no article is left loading
\* once every lookup has returned; the completion or the failure of a lookup
\* takes its article from loading to resolved or error and changes no other
\* article and no other field than sku_id, skuStatus and skuError; a status
\* only moves along idle -> loading -> resolved | error.
C18_LookupsIndependent ==
    [][/\ RunMerges =>
             /\ InFlight("sku")' = Cardinality(ArticleKeys')
             /\ \A r \in ArticleKeys' :
                    /\ requests'[r] = 1
                    /\ ArticleAt(articles', editablePOs', r).skuStatus
                           \in NextStatuses("idle") \ {"idle"}
       /\ inwardMounted' =>
             (\A r \in ArticleKeys :
                  (ArticleAt(articles, editablePOs, r).skuStatus = "loading")
                      <=> BagIn(r, requests))'
       /\ (inwardMounted' /\ ~RunMerges) =>
             /\ ArticleKeys' = ArticleKeys
             /\ \A r \in ArticleKeys :
                    LET a == ArticleAt(articles, editablePOs, r)
                        b == ArticleAt(articles', editablePOs', r)
                    IN  IF BagIn(r, requests) /\ ~BagIn(r, requests')
                        THEN /\ a.skuStatus = "loading"
                             /\ b.skuStatus \in {"resolved", "error"}
                             /\ b.item_description = a.item_description
                        ELSE b = a
       /\ \A r \in ArticleKeys \cap ArticleKeys' :
              ArticleAt(articles', editablePOs', r).skuStatus
                  \in NextStatuses(ArticleAt(articles, editablePOs, r).skuStatus)]_vars

\* the two articles of the review form: the lookup of the second has failed
\* while the lookup of the first is still in flight
C18_Witness ==
    /\ inwardMounted
    /\ step = "review"
    /\ Len(articles) = 2
    /\ articles[1].skuStatus = "loading"
    /\ articles[2].skuStatus = "error"
    /\ BagIn(SkuRequest(NoIndex, 0), requests)

\* both lookups of a batch of two POs have returned, one with a SKU
C18_AllReturned ==
    /\ inwardMounted
    /\ step = "multi-po"
    /\ Len(editablePOs) = 2
    /\ InFlight("sku") = 0
    /\ editablePOs[1].articles[1].skuStatus = "error"
    /\ editablePOs[2].articles[1].skuStatus = "resolved"

\* C19: a response that arrives after the page has been unmounted is checked
\* against the mounted state before it is applied: no state setter of the
\* page is ever called with the result of a request once the page is
\* unmounted.
C19_ResponsesAfterUnmountGuarded == ~settersAfterUnmount

\* the same for the SKU lookups alone: the continuation of a lookup calls no
\* setter on the unmounted page
C19_LookupsAfterUnmountGuarded ==
    [][(~inwardMounted /\ InFlight("sku")' < InFlight("sku"))
           => settersAfterUnmount' = settersAfterUnmount]_vars

\* an unmounted page whose run of handleExtract went on to request page 2
C19_RunGoesOnAfterUnmount ==
    /\ ~inwardMounted
    /\ settersAfterUnmount
    /\ BagIn(PageRequest(2), requests)

----------------------------------------------------------------------------
(* Claims about the submission of a batch                                  *)

\* the create requests submission number run has sent, in the order sent
RequestsOf(run) == SelectSeq(createLog, LAMBDA e : e.run = run)

TxnNoOf(e) == e.payload.transaction_no

\* C20: in one submission of a batch of n editable POs (the POs of the
\* render in which the submit button was clicked) each create request
\* carries one PO, the requests are sent in the order of the POs, one at a
\* time, the request of a PO carries that PO's number and articles under one
\* transaction number of the form TR-YYYYMMDDHHmmss, the transaction numbers
\* of one submission are pairwise distinct, and a submission that has ended
\* without a failure has sent all n POs.
C20_TxnNumbersDistinctInPOOrder ==
    /\ \A run \in 1 .. submitRun.run :
           LET sent == RequestsOf(run)
           IN  \A k \in 1 .. Len(sent) :
                   /\ sent[k].i = k - 1
                   /\ Len(TxnNoOf(sent[k])) = 17
                   /\ \A a \in 1 .. Len(sent[k].payload.articles) :
                          sent[k].payload.articles[a].transaction_no = TxnNoOf(sent[k])
                   /\ \A j \in 1 .. k - 1 : TxnNoOf(sent[j]) # TxnNoOf(sent[k])
    /\ LET sent == RequestsOf(submitRun.run)
           POs == submitRun.POs
       IN  /\ Len(sent) <= Len(POs)
           /\ \A k \in 1 .. Len(sent) :
                  /\ sent[k].payload.po_number = POs[k].po_number
                  /\ Len(sent[k].payload.articles) = Len(POs[k].articles)
                  /\ \A a \in 1 .. Len(POs[k].articles) :
                         sent[k].payload.articles[a].item_description
                             = POs[k].articles[a].item_description
           /\ InFlight("create") <= 1
           /\ submitRun.pc = "create" =>
                  /\ Len(sent) = submitRun.i + 1
                  /\ BagIn(CreateRequest(submitRun.i), requests)
           /\ (submitRun.pc = "none" /\ submitRun.run > 0) =>
                  /\ InFlight("create") = 0
                  /\ submitRun.i = Len(POs) => Len(sent) = Len(POs)

\* a submission of three POs clicked two seconds before midnight of
\* 29 February 2024 has ended without a failure
C20_Witness ==
    /\ submitRun.pc = "none"
    /\ submitRun.i = 3
    /\ LET sent == RequestsOf(submitRun.run)
       IN  /\ Len(sent) = 3
           /\ TxnNoOf(sent[1]) = <<"T", "R", "-", "2", "0", "2", "4", "0", "2", "2", "8", "2", "3", "5", "9", "5", "8">>
           /\ TxnNoOf(sent[2]) = <<"T", "R", "-", "2", "0", "2", "4", "0", "2", "2", "8", "2", "3", "5", "9", "5", "9">>
           /\ TxnNoOf(sent[3]) = <<"T", "R", "-", "2", "0", "2", "4", "0", "2", "2", "9", "0", "0", "0", "0", "0", "0">>

\* a second submission, after the first failed, runs over the hour in which
\* the clocks are set back
C20_FallBackReached ==
    /\ submitRun.run = 2
    /\ LET sent == RequestsOf(2)
       IN  /\ Len(sent) = 2
           /\ TxnNoOf(sent[1]) = <<"T", "R", "-", "2", "0", "2", "4", "1", "0", "2", "7", "0", "1", "5", "9", "5", "9">>
           /\ TxnNoOf(sent[2]) = <<"T", "R", "-", "2", "0", "2", "4", "1", "0", "2", "7", "0", "1", "0", "0", "0", "0">>

\* submissions over the turn of the year and of February 2025
C20_NewYearReached ==
    \E k \in 1 .. Len(createLog) : TxnNoOf(createLog[k]) = <<"T", "R", "-", "2", "0", "2", "5", "0", "1", "0", "1", "0", "0", "0", "0", "0", "0">>

C20_MarchReached ==
    \E k \in 1 .. Len(createLog) : TxnNoOf(createLog[k]) = <<"T", "R", "-", "2", "0", "2", "5", "0", "3", "0", "1", "0", "0", "0", "0", "0", "1">>

C20_MorningReached ==
    \E k \in 1 .. Len(createLog) : TxnNoOf(createLog[k]) = <<"T", "R", "-", "2", "0", "2", "4", "0", "1", "1", "1", "0", "9", "0", "4", "0", "5">>

----------------------------------------------------------------------------
(* HighPerformanceQRScanner                                                *)

\* texts the manual entry field may hold: blank ones and two barcodes
BarcodeTexts == {<<>>, <<" ">>, <<"X">>, <<" ", "Y">>}

\* calls of onScanSuccess followed
MaxScanCalls == 2

\* the QR payloads the camera may decode
QrPayloads == {<<"Q">>}

\* scanner.stop() and scanner.destroy(); both are harmless on an instance
\* that was stopped or destroyed before
Stopped(q) == [q EXCEPT !.started = FALSE]
Destroyed(q) == [q EXCEPT !.started = FALSE, !.destroyed = TRUE]

\* a state setter or a callback of the props is called with the value named
\* what: after unmount the call is only recorded
SetIfMounted(what, set) ==
    IF isMountedRef THEN set /\ UNCHANGED lateSets
    ELSE lateSets' = lateSets \cup {what}

\* the animation frame init() waits for has come: the checks before the
\* scanner is constructed, the construction, and scanner.start() up to its
\* await
FrameFires(isSecureContext, hasGetUserMedia) ==
    /\ initPc = "frame"
    /\ IF ~active
       THEN /\ initPc' = "done"
            /\ UNCHANGED <<scanner, scannerRef, error, lateSets>>
       ELSE IF ~isSecureContext
       THEN /\ initPc' = "done"
            /\ error' = "Camera requires HTTPS or localhost"
            /\ UNCHANGED <<scanner, scannerRef, lateSets>>
       ELSE IF ~hasGetUserMedia
       THEN /\ initPc' = "done"
            /\ error' = "Camera API not available in this browser"
            /\ UNCHANGED <<scanner, scannerRef, lateSets>>
       ELSE /\ initPc' = "starting"
            /\ scanner' = [NoScanner EXCEPT !.made = TRUE]
            /\ scannerRef' = TRUE
            /\ UNCHANGED <<error, lateSets>>
    /\ UNCHANGED <<isMountedRef, active, hasScannedRef, isCameraReady,
                   showManualEntry, manualBarcode, decodePending, scanCalls,
                   errorCalls>>

\* the end of the try block of init() without the check of `active` after
\* the awaits
AfterStartUnchecked(q) ==
    /\ initPc' = "done"
    /\ scanner' = q
    /\ UNCHANGED scannerRef
    /\ SetIfMounted("isCameraReady", isCameraReady' = TRUE)
    /\ IF isMountedRef THEN TRUE ELSE UNCHANGED isCameraReady

\* the end of the try block of init(): the check made after the awaits, then
\* setIsCameraReady(true); q is the instance as start() left it
AfterStart(q) ==
    /\ initPc' = "done"
    /\ IF ~active
       THEN /\ scanner' = Destroyed(Stopped(q))
            /\ scannerRef' = FALSE
            /\ UNCHANGED <<isCameraReady, lateSets>>
       ELSE /\ scanner' = q
            /\ UNCHANGED scannerRef
            /\ SetIfMounted("isCameraReady", isCameraReady' = TRUE)
            /\ IF isMountedRef THEN TRUE ELSE UNCHANGED isCameraReady

\* scanner.start() resolves: the camera runs, unless the instance was
\* destroyed while start() was pending, when the library may or may not have
\* left the stream running; the autofocus request is awaited where the
\* camera supports it
StartResolved(running, focus) ==
    /\ initPc = "starting"
    /\ running \/ scanner.destroyed
    /\ LET q == [scanner EXCEPT !.started = running]
       IN  IF focus
           THEN /\ initPc' = "focus"
                /\ scanner' = q
                /\ UNCHANGED <<scannerRef, isCameraReady, lateSets>>
           ELSE AfterStart(q)
    /\ UNCHANGED <<isMountedRef, active, hasScannedRef, error, showManualEntry,
                   manualBarcode, decodePending, scanCalls, errorCalls>>

\* track.applyConstraints settles either way
FocusSettled ==
    /\ initPc = "focus"
    /\ AfterStart(scanner)
    /\ UNCHANGED <<isMountedRef, active, hasScannedRef, error, showManualEntry,
                   manualBarcode, decodePending, scanCalls, errorCalls>>

\* scanner.start() rejects: the catch block of init()
StartRejected ==
    /\ initPc = "starting"
    /\ initPc' = "done"
    /\ IF ~active
       THEN UNCHANGED <<error, errorCalls, lateSets>>
       ELSE /\ SetIfMounted("error", error' = "Failed to start camera")
            /\ IF isMountedRef THEN TRUE ELSE UNCHANGED error
            /\ errorCalls' = errorCalls + 1
    /\ UNCHANGED <<isMountedRef, active, scanner, scannerRef, hasScannedRef,
                   isCameraReady, showManualEntry, manualBarcode, decodePending,
                   scanCalls>>

\* the running scanner finds a code in a frame; the callback is called later
FrameDecoded ==
    /\ scanner.started
    /\ ~decodePending
    /\ decodePending' = TRUE
    /\ UNCHANGED <<isMountedRef, active, initPc, scanner, scannerRef, hasScannedRef,
                   isCameraReady, error, showManualEntry, manualBarcode, scanCalls,
                   errorCalls, lateSets>>

\* the decode callback given to the QrScanner constructor
onDecode(data) ==
    /\ decodePending
    /\ Len(scanCalls) < MaxScanCalls
    /\ decodePending' = FALSE
    /\ IF ~active \/ hasScannedRef
       THEN UNCHANGED <<hasScannedRef, scanner, scanCalls>>
       ELSE /\ hasScannedRef' = TRUE
            /\ scanner' = Stopped(scanner)
            /\ scanCalls' = Append(scanCalls, data)
    /\ UNCHANGED <<isMountedRef, active, initPc, scannerRef, isCameraReady, error,
                   showManualEntry, manualBarcode, errorCalls, lateSets>>

\* the keyboard button (camera ready) or "Enter Barcode Manually" (error)
openManualEntry ==
    /\ isMountedRef
    /\ ~showManualEntry
    /\ isCameraReady \/ error # ""
    /\ showManualEntry' = TRUE
    /\ UNCHANGED <<isMountedRef, active, initPc, scanner, scannerRef, hasScannedRef,
                   isCameraReady, error, manualBarcode, decodePending, scanCalls,
                   errorCalls, lateSets>>

\* typing into the manual entry field
setManualBarcode(text) ==
    /\ isMountedRef
    /\ showManualEntry
    /\ manualBarcode' = text
    /\ UNCHANGED <<isMountedRef, active, initPc, scanner, scannerRef, hasScannedRef,
                   isCameraReady, error, showManualEntry, decodePending, scanCalls,
                   errorCalls, lateSets>>

\* the button "Back" of the manual entry
closeManualEntry ==
    /\ isMountedRef
    /\ showManualEntry
    /\ showManualEntry' = FALSE
    /\ manualBarcode' = <<>>
    /\ UNCHANGED <<isMountedRef, active, initPc, scanner, scannerRef, hasScannedRef,
                   isCameraReady, error, decodePending, scanCalls, errorCalls,
                   lateSets>>

\* handleManualSubmit with `if (!val || hasScannedRef.current) return`
handleManualSubmitOnce ==
    /\ isMountedRef
    /\ showManualEntry
    /\ Len(scanCalls) < MaxScanCalls
    /\ IF Trim(manualBarcode) = <<>> \/ hasScannedRef
       THEN UNCHANGED <<hasScannedRef, scanner, scannerRef, scanCalls>>
       ELSE /\ hasScannedRef' = TRUE
            /\ IF scannerRef
               THEN scanner' = Destroyed(Stopped(scanner)) /\ scannerRef' = FALSE
               ELSE UNCHANGED <<scanner, scannerRef>>
            /\ scanCalls' = Append(scanCalls, Trim(manualBarcode))
    /\ UNCHANGED <<isMountedRef, active, initPc, isCameraReady, error,
                   showManualEntry, manualBarcode, decodePending, errorCalls,
                   lateSets>>

\* Enter in the manual entry field, or its button "Submit"
handleManualSubmit ==
    /\ isMountedRef
    /\ showManualEntry
    /\ Len(scanCalls) < MaxScanCalls
    /\ IF Trim(manualBarcode) = <<>>
       THEN UNCHANGED <<hasScannedRef, scanner, scannerRef, scanCalls>>
       ELSE /\ hasScannedRef' = TRUE
            /\ IF scannerRef
               THEN scanner' = Destroyed(Stopped(scanner)) /\ scannerRef' = FALSE
               ELSE UNCHANGED <<scanner, scannerRef>>
            /\ scanCalls' = Append(scanCalls, Trim(manualBarcode))
    /\ UNCHANGED <<isMountedRef, active, initPc, isCameraReady, error,
                   showManualEntry, manualBarcode, decodePending, errorCalls,
                   lateSets>>

\* the button "Close scanner"; onClose is the parent's
handleClose ==
    /\ isMountedRef
    /\ IF scannerRef
       THEN scanner' = Destroyed(Stopped(scanner)) /\ scannerRef' = FALSE
       ELSE UNCHANGED <<scanner, scannerRef>>
    /\ UNCHANGED <<isMountedRef, active, initPc, hasScannedRef, isCameraReady, error,
                   showManualEntry, manualBarcode, decodePending, scanCalls,
                   errorCalls, lateSets>>

\* the cleanup of the init effect: the parent unmounts the scanner, after a
\* scan, after a close, or for a reason of its own
cleanup ==
    /\ isMountedRef
    /\ active' = FALSE
    /\ isMountedRef' = FALSE
    /\ scanner' = IF scanner.made THEN Destroyed(Stopped(scanner)) ELSE scanner
    /\ scannerRef' = FALSE
    /\ UNCHANGED <<initPc, hasScannedRef, isCameraReady, error, showManualEntry,
                   manualBarcode, decodePending, scanCalls, errorCalls, lateSets>>

----------------------------------------------------------------------------
(* Specification of the QR scanner                                         *)

\* what a step of the scanner leaves alone
notScanner ==
    <<transferVars, mergeVars, inwardVars, persistVars, authVars, labelVars, lookupVars>>

InitScanner == TransferInit /\ MergeIdle /\ InwardInit /\ RestInit

NextScanner ==
    \/ (\E isSecureContext, hasGetUserMedia \in BOOLEAN :
            FrameFires(isSecureContext, hasGetUserMedia)) /\ UNCHANGED notScanner
    \/ (\E running, focus \in BOOLEAN : StartResolved(running, focus))
           /\ UNCHANGED notScanner
    \/ FocusSettled /\ UNCHANGED notScanner
    \/ StartRejected /\ UNCHANGED notScanner
    \/ FrameDecoded /\ UNCHANGED notScanner
    \/ (\E data \in QrPayloads : onDecode(data)) /\ UNCHANGED notScanner
    \/ openManualEntry /\ UNCHANGED notScanner
    \/ (\E text \in BarcodeTexts : setManualBarcode(text)) /\ UNCHANGED notScanner
    \/ closeManualEntry /\ UNCHANGED notScanner
    \/ handleManualSubmit /\ UNCHANGED notScanner
    \/ handleClose /\ UNCHANGED notScanner
    \/ cleanup /\ UNCHANGED notScanner

SpecScanner == InitScanner /\ [][NextScanner]_vars

----------------------------------------------------------------------------
(* Claims about the QR scanner                                             *)

\* a camera decode never reaches onScanSuccess once the scanner is unmounted
NoScanCallAfterUnmount == [][~isMountedRef => scanCalls' = scanCalls]_vars

\* C21: one mounted scanner calls onScanSuccess at most once, camera decodes
\* and manual submissions counted together, and a camera decode that arrives
\* after unmount does not call it.
C21_ScanSuccessAtMostOnce ==
    [](Len(scanCalls) <= 1) /\ NoScanCallAfterUnmount

\* the call of a camera decode followed by the call of a manual submission
C21_DecodeThenManual ==
    /\ isMountedRef
    /\ Len(scanCalls) = 2
    /\ scanCalls[1] \in QrPayloads
    /\ scanCalls[2] = <<"X">>

\* C22: whenever the scanner is unmounted, once init() and the cleanup have
\* both finished no camera stream is left running and the QrScanner instance,
\* if one was constructed, is destroyed; after unmount the camera-ready flag
\* and the error text are not set and onScanError is not called.
C22_NoScannerLeftAfterUnmount ==
    /\ [](/\ (~isMountedRef /\ initPc = "done") =>
                 /\ ~scanner.started
                 /\ scanner.made => scanner.destroyed
          /\ ~isMountedRef => ~scannerRef
          /\ lateSets = {})
    /\ [][~isMountedRef =>
              /\ isCameraReady' = isCameraReady
              /\ error' = error
              /\ errorCalls' = errorCalls]_vars

\* the scanner was unmounted while scanner.start() was pending, start() has
\* resolved with the stream running, and init() awaits the autofocus
C22_Witness ==
    /\ ~isMountedRef
    /\ initPc = "focus"
    /\ scanner.started

\* unmount before the animation frame, and after a start failure
C22_BeforeFrameReached == ~isMountedRef /\ initPc = "frame"
C22_AfterFailureReached ==
    ~isMountedRef /\ errorCalls = 1 /\ scanner.destroyed /\ initPc = "done"

----------------------------------------------------------------------------
(* useFormPersistence                                                      *)

\* the delay of the setTimeout of the save effect, in ms
DebounceMs == 300

\* JSON.stringify(snapshot): a field whose value is undefined is left out
Stringify(snapshot) ==
    JsonItem([f \in {g \in DOMAIN snapshot : snapshot[g] # Undefined} |-> snapshot[f]])

\* the state after the setters the restore effect calls for the stored item
Restored(item, state) ==
    IF item.t # "json" THEN state
    ELSE [f \in DOMAIN state |->
             IF f \in DOMAIN item.fields THEN item.fields[f] ELSE state[f]]

\* the items a draft may be stored as at mount
StoredItems ==
    {NoItem, CorruptItem,
     JsonItem([f \in Fields |-> IF f = "a" THEN "p" ELSE "q"]),
     JsonItem([f \in {"a"} |-> "q"]),
     JsonItem([f \in Fields |-> DefaultValue])}

\* clearTimeout(debounceRef.current)
Cleared(ts) == IF debounceRef.set THEN ts \ {debounceRef} ELSE ts

\* the save effect without the clearTimeout of its body and of its cleanup
SaveEffectKeepsTimer(values, restoredNow) ==
    IF ~restoredNow THEN UNCHANGED <<timers, debounceRef>>
    ELSE LET timer == [left |-> DebounceMs, snapshot |-> values, set |-> TRUE]
         IN  /\ timers' = timers \cup {timer}
             /\ debounceRef' = timer

\* the body of the save effect for the render of values: the guard, the
\* clearTimeout and the setTimeout; restoredNow is isRestoredRef.current
SaveEffect(values, restoredNow) ==
    IF ~restoredNow THEN UNCHANGED <<timers, debounceRef>>
    ELSE LET timer == [left |-> DebounceMs, snapshot |-> values, set |-> TRUE]
         IN  /\ timers' = Cleared(timers) \cup {timer}
             /\ debounceRef' = timer

\* the effects of the first commit, in the order declared: the restore
\* effect calls the setters and sets isRestoredRef, the save effect then
\* runs for the values of the first render
MountEffects ==
    /\ hookMounted
    /\ ~isRestoredRef
    /\ formState' = Restored(storage, formState)
    /\ isRestoredRef' = TRUE
    /\ SaveEffect(rendered, TRUE)
    /\ sinceChange' = 0
    /\ UNCHANGED <<storage, rendered, hookMounted, persistSeen>>

\* the render React makes after the setters of the restore effect: the
\* cleanup of the save effect of the render before, then the save effect of
\* this render
Render ==
    /\ hookMounted
    /\ isRestoredRef
    /\ rendered # formState
    /\ rendered' = formState
    /\ SaveEffect(formState, isRestoredRef)
    /\ UNCHANGED <<storage, formState, isRestoredRef, hookMounted, sinceChange,
                   persistSeen>>

\* the user changes a field of the form: React renders the state change of
\* an input event, and runs the effects of that render, before the event is over
Edit(field, value) ==
    /\ hookMounted
    /\ isRestoredRef
    /\ rendered = formState
    /\ formState[field] # value
    /\ formState' = [formState EXCEPT ![field] = value]
    /\ rendered' = formState'
    /\ SaveEffect(formState', isRestoredRef)
    /\ sinceChange' = 0
    /\ persistSeen' = [persistSeen EXCEPT !.edited = TRUE]
    /\ UNCHANGED <<storage, isRestoredRef, hookMounted>>

\* 100 ms pass; React renders a pending state change and the browser runs a
\* due timer before more time passes
Tick ==
    /\ isRestoredRef
    /\ rendered = formState \/ ~hookMounted
    /\ \A timer \in timers : timer.left > 0
    /\ timers # {} \/ sinceChange < DebounceMs
    /\ timers' = {[timer EXCEPT !.left = @ - 100] : timer \in timers}
    /\ debounceRef' = IF debounceRef.set /\ debounceRef.left > 0
                      THEN [debounceRef EXCEPT !.left = @ - 100] ELSE debounceRef
    /\ sinceChange' = IF sinceChange < DebounceMs THEN sinceChange + 100
                                                  ELSE sinceChange
    /\ UNCHANGED <<storage, formState, rendered, isRestoredRef, hookMounted,
                   persistSeen>>

\* the callback of a timer that is due: localStorage.setItem
TimerFires(timer) ==
    /\ timer \in timers
    /\ timer.left = 0
    /\ storage' = Stringify(timer.snapshot)
    /\ timers' = timers \ {timer}
    /\ UNCHANGED <<formState, rendered, isRestoredRef, debounceRef, hookMounted,
                   sinceChange, persistSeen>>

\* clearSavedData()
clearSavedData ==
    /\ hookMounted
    /\ isRestoredRef
    /\ storage' = NoItem
    /\ persistSeen' = [persistSeen EXCEPT !.cleared = TRUE]
    /\ UNCHANGED <<formState, rendered, isRestoredRef, timers, debounceRef,
                   hookMounted, sinceChange>>

\* the component is unmounted: the cleanup of the save effect
unmountForm ==
    /\ hookMounted
    /\ isRestoredRef
    /\ hookMounted' = FALSE
    /\ timers' = Cleared(timers)
    /\ UNCHANGED <<storage, formState, rendered, isRestoredRef, debounceRef,
                   sinceChange, persistSeen>>

----------------------------------------------------------------------------
(* Specification of useFormPersistence                                     *)

notPersist ==
    <<transferVars, mergeVars, inwardVars, scannerVars, authVars, labelVars, lookupVars>>

InitPersist ==
    /\ TransferInit /\ MergeIdle /\ InwardInit /\ ScannerInit /\ AuthInit /\ LabelInit
    /\ transferNumber = <<>> /\ lookups = <<>>
    /\ storage \in StoredItems
    /\ formState = Defaults
    /\ rendered = Defaults
    /\ isRestoredRef = FALSE
    /\ timers = {}
    /\ debounceRef = NoTimer
    /\ hookMounted = TRUE
    /\ sinceChange = 0
    /\ persistSeen = [atMount |-> storage, edited |-> FALSE, cleared |-> FALSE]

NextPersist ==
    \/ MountEffects /\ UNCHANGED notPersist
    \/ Render /\ UNCHANGED notPersist
    \/ (\E field \in Fields, value \in FieldValues : Edit(field, value))
           /\ UNCHANGED notPersist
    \/ Tick /\ UNCHANGED notPersist
    \/ (\E timer \in timers : TimerFires(timer)) /\ UNCHANGED notPersist
    \/ clearSavedData /\ UNCHANGED notPersist
    \/ unmountForm /\ UNCHANGED notPersist

SpecPersist == InitPersist /\ [][NextPersist]_vars

----------------------------------------------------------------------------
(* Claims about useFormPersistence                                         *)

\* the callback of some timer writes the storage in this step
WritesSnapshot(timer) == timer.left = 0 /\ TimerFires(timer)

\* every write happens after the restore, and writes the state of the form
\* as it is now, which has been unchanged for the debounce delay
WriteIsLatestAfterQuiet ==
    \A timer \in timers :
        WritesSnapshot(timer) =>
            /\ isRestoredRef
            /\ timer.snapshot = formState
            /\ sinceChange >= DebounceMs

\* as long as the user has neither edited the form nor cleared the draft,
\* the storage holds every field value of the draft that was restored
DraftKept ==
    (persistSeen.atMount.t = "json" /\ ~persistSeen.edited /\ ~persistSeen.cleared) =>
        /\ storage.t = "json"
        /\ \A f \in DOMAIN persistSeen.atMount.fields :
               /\ f \in DOMAIN storage.fields
               /\ storage.fields[f] = persistSeen.atMount.fields[f]

\* once the delay has passed after the last change of a mounted form, the
\* storage holds the state of the form, unless the draft was cleared
QuietIsSaved ==
    (hookMounted /\ isRestoredRef /\ rendered = formState /\ timers = {}
        /\ ~persistSeen.cleared) => storage = Stringify(formState)

\* C23: useFormPersistence never writes to localStorage before the restore
\* of the mount has run; a draft (a stored object) present at mount is not
\* replaced by the default values: with no user edits the storage holds the
\* restored field values after mount and the debounce delay; and a write
\* stores only the latest state, after 300 ms without a change.
C23_RestoreBeforeWriteAndDebounce ==
    /\ [](~isRestoredRef => timers = {} /\ storage = persistSeen.atMount)
    /\ [](DraftKept /\ QuietIsSaved)
    /\ [][WriteIsLatestAfterQuiet]_vars

\* a draft holding one field only was restored and, the delay over, written
\* back with the other field at its default
C23_Witness ==
    /\ persistSeen = [atMount |-> JsonItem([f \in {"a"} |-> "q"]),
                      edited |-> FALSE, cleared |-> FALSE]
    /\ hookMounted /\ timers = {} /\ sinceChange = DebounceMs
    /\ storage = JsonItem([f \in Fields |-> IF f = "a" THEN "q" ELSE DefaultValue])

\* an edit made while a timer was pending came to be the one written
C23_EditDebounced ==
    /\ persistSeen.edited /\ ~persistSeen.cleared /\ hookMounted
    /\ timers = {} /\ formState # Restored(persistSeen.atMount, Defaults)
    /\ storage = Stringify(formState) /\ formState["b"] = Undefined

\* a stored text that JSON.parse rejects is not restored and is written over
C23_CorruptWrittenOver ==
    persistSeen.atMount = CorruptItem /\ ~persistSeen.edited /\ storage = Stringify(Defaults)

----------------------------------------------------------------------------
(* useAuthStore                                                            *)

\* the login calls that may await their response at once
MaxLogins == 2

\* the users the server knows, as the User that login builds of the response:
\* one with a company, one with none, one whose first company is not CFPL
Users ==
    {[id |-> "1", email |-> "a@x", isDeveloper |-> FALSE,
      companies |-> <<[code |-> "CFPL", role |-> "admin"]>>],
     [id |-> "2", email |-> "b@x", isDeveloper |-> FALSE, companies |-> <<>>],
     [id |-> "3", email |-> "c@x", isDeveloper |-> FALSE,
      companies |-> <<[code |-> "CDPL", role |-> "viewer"],
                      [code |-> "CFPL", role |-> "viewer"]>>]}
Emails == {u.email : u \in Users}
Companies == {"CFPL", "CDPL", "JTC"}
UserOf(email) == CHOOSE u \in Users : u.email = email

\* userData.access_token
TokenOf(u) == <<"token", u.id>>

\* user.companies.find(c => c.code === company): the index, 0 if none
FindCompany(u, company) ==
    IF \E k \in 1..Len(u.companies) : u.companies[k].code = company
    THEN CHOOSE k \in 1..Len(u.companies) :
             /\ u.companies[k].code = company
             /\ \A j \in 1..(k - 1) : u.companies[j].code # company
    ELSE 0

\* (user.companies.find(c => c.code === "CFPL") || user.companies[0])?.code
DefaultCompany(u) ==
    IF FindCompany(u, "CFPL") # 0 THEN "CFPL"
    ELSE IF Len(u.companies) > 0 THEN u.companies[1].code
    ELSE NoCompany

\* the CompanyAccess setCurrentCompany builds of the company data
AccessOf(companyData) == [code |-> companyData.code, role |-> companyData.role]

\* the sequence without its i-th element
Without(seq, i) == [k \in 1..(Len(seq) - 1) |-> IF k < i THEN seq[k] ELSE seq[k + 1]]

\* the state that the failure branches and logout set
AuthCleared ==
    /\ user' = NoUser
    /\ currentCompany' = NoCompany
    /\ currentCompanyAccess' = NoAccess
    /\ isAuthenticated' = FALSE
    /\ accessToken' = NoToken
    /\ isLoading' = FALSE

\* login(email, password), up to the await of fetch
login(email) ==
    /\ Len(logins) < MaxLogins
    /\ isLoading' = TRUE
    /\ logins' = Append(logins, email)
    /\ UNCHANGED <<user, currentCompany, currentCompanyAccess, isAuthenticated,
                   accessToken>>

\* the response of the i-th call is not ok: success false
LoginHttpError(i) ==
    /\ i \in 1..Len(logins)
    /\ AuthCleared
    /\ logins' = Without(logins, i)

\* fetch or response.json() rejects: the catch block, success false
LoginNetworkError(i) ==
    /\ i \in 1..Len(logins)
    /\ AuthCleared
    /\ logins' = Without(logins, i)

\* the response is ok and its body lacks id or email: success false
LoginInvalidBody(i) ==
    /\ i \in 1..Len(logins)
    /\ isLoading' = FALSE
    /\ logins' = Without(logins, i)
    /\ UNCHANGED <<user, currentCompany, currentCompanyAccess, isAuthenticated,
                   accessToken>>

\* login that clears the company of the store before it sets the default one
LoggedInFresh(u) ==
    /\ user' = u
    /\ isAuthenticated' = TRUE
    /\ accessToken' = TokenOf(u)
    /\ IF DefaultCompany(u) # NoCompany
       THEN /\ currentCompany' = DefaultCompany(u)
            /\ currentCompanyAccess' =
                   AccessOf(u.companies[FindCompany(u, DefaultCompany(u))])
       ELSE /\ currentCompany' = NoCompany
            /\ currentCompanyAccess' = NoAccess
    /\ isLoading' = FALSE

\* the state after login's set of the user and its call of setCurrentCompany
\* for the default company, if the user has one
LoggedIn(u) ==
    /\ user' = u
    /\ isAuthenticated' = TRUE
    /\ accessToken' = TokenOf(u)
    /\ IF DefaultCompany(u) # NoCompany
       THEN /\ currentCompany' = DefaultCompany(u)
            /\ currentCompanyAccess' =
                   AccessOf(u.companies[FindCompany(u, DefaultCompany(u))])
       ELSE UNCHANGED <<currentCompany, currentCompanyAccess>>
    /\ isLoading' = FALSE

\* the response is ok and holds the user of the email: success true
LoginOk(i) ==
    /\ i \in 1..Len(logins)
    /\ LoggedIn(UserOf(logins[i]))
    /\ logins' = Without(logins, i)

\* logout()
logout ==
    /\ AuthCleared
    /\ UNCHANGED logins

\* setCurrentCompany(company); it throws, the state as it was, without a user
\* or if the user has no such company
setCurrentCompany(company) ==
    /\ user # NoUser
    /\ FindCompany(user, company) # 0
    /\ currentCompany' = company
    /\ currentCompanyAccess' = AccessOf(user.companies[FindCompany(user, company)])
    /\ isLoading' = FALSE
    /\ UNCHANGED <<user, isAuthenticated, accessToken, logins>>

\* refreshPermissions()
refreshPermissions ==
    /\ currentCompany # NoCompany
    /\ setCurrentCompany(currentCompany)

\* hasPermission(module, action)
hasPermission(module) ==
    IF user = NoUser \/ currentCompanyAccess = NoAccess THEN FALSE
    ELSE IF module # "settings" THEN TRUE
    ELSE IF user.isDeveloper THEN TRUE
    ELSE currentCompanyAccess.role \in {"developer", "admin"}

----------------------------------------------------------------------------
(* Specification of useAuthStore                                           *)

notAuth ==
    <<transferVars, mergeVars, inwardVars, scannerVars, persistVars, labelVars, lookupVars>>

InitAuth == TransferInit /\ MergeIdle /\ InwardInit /\ RestInit

NextAuth ==
    \/ (\E email \in Emails : login(email)) /\ UNCHANGED notAuth
    \/ (\E i \in 1..Len(logins) : LoginHttpError(i)) /\ UNCHANGED notAuth
    \/ (\E i \in 1..Len(logins) : LoginNetworkError(i)) /\ UNCHANGED notAuth
    \/ (\E i \in 1..Len(logins) : LoginInvalidBody(i)) /\ UNCHANGED notAuth
    \/ (\E i \in 1..Len(logins) : LoginOk(i)) /\ UNCHANGED notAuth
    \/ logout /\ UNCHANGED notAuth
    \/ (\E company \in Companies : setCurrentCompany(company)) /\ UNCHANGED notAuth
    \/ refreshPermissions /\ UNCHANGED notAuth

SpecAuth == InitAuth /\ [][NextAuth]_vars

----------------------------------------------------------------------------
(* Claims about useAuthStore                                               *)

\* the company access, if any, is that of a company of the current user
AccessOfCurrentUser ==
    currentCompanyAccess # NoAccess =>
        /\ user # NoUser
        /\ \E k \in 1..Len(user.companies) :
               AccessOf(user.companies[k]) = currentCompanyAccess

\* hasPermission grants the settings only on the user's own role
PermissionFromOwnRole ==
    hasPermission("settings") =>
        \/ user.isDeveloper
        \/ \E k \in 1..Len(user.companies) : user.companies[k].role \in {"developer", "admin"}

\* C24: after any sequence of login, logout and setCurrentCompany calls a
\* non-null currentCompanyAccess describes a company (code and role) of the
\* current user's companies list, so that a successful login never leaves
\* the access of the user before in place and hasPermission never answers
\* from another user's role.
C24_CompanyAccessBelongsToUser == AccessOfCurrentUser /\ PermissionFromOwnRole

\* a user without companies is logged in and holds the access of the admin
\* who was logged in before
C24_StaleAccessReached ==
    /\ user.id = "2" /\ isAuthenticated
    /\ currentCompanyAccess = [code |-> "CFPL", role |-> "admin"]
    /\ hasPermission("settings")

\* the store holds nobody: what a failed login is said to leave
Unauthenticated ==
    /\ user = NoUser /\ accessToken = NoToken /\ currentCompany = NoCompany
    /\ currentCompanyAccess = NoAccess /\ ~isAuthenticated

\* a login call returns success false in this step
LoginReturnsFailure ==
    \E i \in 1..Len(logins) :
        LoginHttpError(i) \/ LoginNetworkError(i) \/ LoginInvalidBody(i)

\* C25: every login call that returns success false (HTTP error, network
\* error, or a response lacking id or email) leaves the store unauthenticated,
\* whatever its state before the call, with isLoading false when it returns.
C25_FailedLoginLeavesUnauthenticated ==
    [][LoginReturnsFailure => (Unauthenticated' /\ ~isLoading')]_vars

\* the same of the failures that come as an HTTP error or a network error
C25_ErrorsLeaveUnauthenticated ==
    [][(\E i \in 1..Len(logins) : LoginHttpError(i) \/ LoginNetworkError(i))
           => (Unauthenticated' /\ ~isLoading')]_vars

\* a user is logged in while another login call awaits its response
C25_LoginWhileAuthenticated == isAuthenticated /\ Len(logins) > 0

----------------------------------------------------------------------------
(* NewInwardPage with label printing: ensureEntryCreated                   *)

\* the boxes of the review step, the calls that may be at an await at once
\* and the createInward requests a session may send
MaxLabelBoxes == 2
MaxLabelCalls == 2
MaxCreates == 2

\* what new Date() may answer at a click: twice within one second, and in
\* the second after
LabelTimes == {Instant(10, 8, 4, 5, 1), Instant(10, 8, 4, 5, 600), Instant(10, 8, 4, 6, 0)}

\* a call of handlePrintBox (kind "print") or handleSubmit (kind "submit") at
\* the await of createInward (pc "create") or of the request that follows it
LabelCall(kind, box, pc, txnNo) == [kind |-> kind, box |-> box, pc |-> pc, txnNo |-> txnNo]

\* the request that follows ensureEntryCreated in a call of the kind
FollowUp(kind) == IF kind = "print" THEN "upsert" ELSE "approve"

\* ensureEntryCreated() in a call of the kind for the box, up to its await
ensureEntryCreated(kind, box, now) ==
    IF createdTxnNo # NoTxn
    THEN /\ labelCalls' = labelCalls \cup {LabelCall(kind, box, FollowUp(kind), createdTxnNo)}
         /\ UNCHANGED <<createsSent, createdTxnNo>>
    ELSE /\ Len(createsSent) < MaxCreates
         /\ createsSent' = Append(createsSent, generateTxnNo(now))
         /\ labelCalls' = labelCalls \cup {LabelCall(kind, box, "create", generateTxnNo(now))}
         /\ UNCHANGED createdTxnNo

\* a click at time now, not before the click before
Clicked(now) ==
    /\ labelMounted
    /\ Cardinality(labelCalls) < MaxLabelCalls
    /\ ~Before(now, labelClock)
    /\ labelClock' = now

\* handlePrintBox(boxIdx) for a box that has an approval form: the button of
\* the box is disabled while printingBoxIdx is its index
handlePrintBox(boxIdx, now) ==
    /\ Clicked(now)
    /\ printingBoxIdx # boxIdx
    /\ printingBoxIdx' = boxIdx
    /\ ensureEntryCreated("print", boxIdx, now)
    /\ UNCHANGED <<labelSubmitting, labelMounted>>

\* handleSubmit(): the button is disabled while submitting
handleSubmitLabel(now) ==
    /\ Clicked(now)
    /\ ~labelSubmitting
    /\ labelSubmitting' = TRUE
    /\ ensureEntryCreated("submit", NoIndex, now)
    /\ UNCHANGED <<printingBoxIdx, labelMounted>>

\* createInward resolves for the call: setCreatedTxnNo(result.transaction_no)
\* and the call goes on with that number
CreateInwardResolved(call) ==
    /\ call \in labelCalls
    /\ call.pc = "create"
    /\ createdTxnNo' = call.txnNo
    /\ labelCalls' = (labelCalls \ {call})
           \cup {LabelCall(call.kind, call.box, FollowUp(call.kind), call.txnNo)}
    /\ UNCHANGED <<printingBoxIdx, labelSubmitting, createsSent, labelClock, labelMounted>>

\* the request the call awaits rejects, or the upsert of a print resolves:
\* the catch and finally blocks
CallSettled(call) ==
    /\ call \in labelCalls
    /\ call.pc # "approve"
    /\ labelCalls' = labelCalls \ {call}
    /\ IF call.kind = "print"
       THEN printingBoxIdx' = NoIndex /\ UNCHANGED labelSubmitting
       ELSE labelSubmitting' = FALSE /\ UNCHANGED printingBoxIdx
    /\ UNCHANGED <<createdTxnNo, createsSent, labelClock, labelMounted>>

\* approveOrReject resolves or rejects: router.push in either case
ApproveSettled(call) ==
    /\ call \in labelCalls
    /\ call.pc = "approve"
    /\ labelCalls' = labelCalls \ {call}
    /\ labelSubmitting' = FALSE
    /\ labelMounted' = FALSE
    /\ UNCHANGED <<createdTxnNo, printingBoxIdx, createsSent, labelClock>>

notLabel ==
    <<transferVars, mergeVars, inwardVars, scannerVars, persistVars, authVars, lookupVars>>

InitLabel == TransferInit /\ MergeIdle /\ InwardInit /\ RestInit

NextLabel ==
    \/ (\E boxIdx \in 0..(MaxLabelBoxes - 1), now \in LabelTimes :
            handlePrintBox(boxIdx, now)) /\ UNCHANGED notLabel
    \/ (\E now \in LabelTimes : handleSubmitLabel(now)) /\ UNCHANGED notLabel
    \/ (\E call \in labelCalls : CreateInwardResolved(call)) /\ UNCHANGED notLabel
    \/ (\E call \in labelCalls : CallSettled(call)) /\ UNCHANGED notLabel
    \/ (\E call \in labelCalls : ApproveSettled(call)) /\ UNCHANGED notLabel

SpecLabel == InitLabel /\ [][NextLabel]_vars

----------------------------------------------------------------------------
(* Claims about the page with label printing                               *)

\* every call past ensureEntryCreated works with the number of the first
\* createInward request
CallsReuseFirstTxnNo ==
    \A call \in labelCalls : call.pc # "create" => call.txnNo = createsSent[1]

\* C26: on the new-inward page with label printing the inward entry is
\* created at most once per page session: for any interleaving of print-label
\* actions on different boxes and the submit action at most one createInward
\* request is sent, and every later action reuses the transaction number
\* returned by it.
C26_EntryCreatedAtMostOnce == Len(createsSent) <= 1 /\ CallsReuseFirstTxnNo

\* two prints of different boxes have each sent a createInward request
C26_TwoPrintsTwoCreates ==
    /\ Len(createsSent) = 2
    /\ \E c, d \in labelCalls : c.kind = "print" /\ d.kind = "print" /\ c.box # d.box
                                   /\ c.pc = "create" /\ d.pc = "create"

\* a print and a submit work under different transaction numbers
C26_TwoTxnNos ==
    \E c, d \in labelCalls : c.kind = "print" /\ d.kind = "submit"
                                /\ c.pc = "upsert" /\ d.pc = "approve" /\ c.txnNo # d.txnNo

\* a later action reused the number of the entry created before
C26_Reused ==
    /\ Len(createsSent) = 1
    /\ \E c \in labelCalls : c.kind = "submit" /\ c.pc = "approve" /\ c.txnNo = createdTxnNo
    /\ printingBoxIdx = NoIndex

----------------------------------------------------------------------------
(* NewInwardPage: editing the articles while lookups are pending           *)

\* the articles a form or a PO may hold after "Add"
MaxArticles == 3

\* the page results of the PDFs whose review is edited: one PO of two
\* articles, one PO of three articles over two pages, two POs of one and of
\* two articles
EditedPages ==
    LET page(num, number, content) ==
            [page_num |-> num, listed |-> TRUE,
             purchase_orders |->
                 <<EntryOf([po_number |-> S(number), content |-> content], num)>>]
    IN  {<<page(1, <<"B">>, ContentSecond)>>,
         <<page(1, <<"B">>, ContentSecond), page(2, <<"B">>, ContentFirst)>>,
         <<page(1, <<"A">>, ContentFirst), page(2, <<"B">>, ContentSecond)>>}

\* the sequence without the element of the index, counted from 0
filter(seq, index) == SubSeq(seq, 1, index) \o SubSeq(seq, index + 2, Len(seq))

\* what the edits of the review leave alone
editFrame == <<step, file, extracting, extractingRef, extractError, extractionProgress,
               vendor, poNumber, extractRun, requests, pagesRequested, inwardMounted,
               settersAfterUnmount, submitVars>>

\* removeArticle(index), offered while the form has more than one article
removeArticle(index) ==
    /\ inwardMounted
    /\ step = "review"
    /\ Len(articles) > 1
    /\ index < Len(articles)
    /\ articles' = filter(articles, index)
    /\ UNCHANGED <<editablePOs, editFrame>>

\* addArticle()
addArticle ==
    /\ inwardMounted
    /\ step = "review"
    /\ Len(articles) < MaxArticles
    /\ articles' = Append(articles, IdleArticle([item_description |-> <<>>]))
    /\ UNCHANGED <<editablePOs, editFrame>>

\* removeMultiPOArticle(index, artIdx), offered while the PO has more than
\* one article
removeMultiPOArticle(index, artIdx) ==
    /\ inwardMounted
    /\ step = "multi-po"
    /\ index < Len(editablePOs)
    /\ Len(editablePOs[index + 1].articles) > 1
    /\ artIdx < Len(editablePOs[index + 1].articles)
    /\ editablePOs' = [editablePOs EXCEPT ![index + 1].articles = filter(@, artIdx)]
    /\ UNCHANGED <<articles, editFrame>>

\* addMultiPOArticle(index)
addMultiPOArticle(index) ==
    /\ inwardMounted
    /\ step = "multi-po"
    /\ index < Len(editablePOs)
    /\ Len(editablePOs[index + 1].articles) < MaxArticles
    /\ editablePOs' = [editablePOs EXCEPT ![index + 1].articles =
                           Append(@, IdleArticle([item_description |-> <<>>]))]
    /\ UNCHANGED <<articles, editFrame>>

\* the page as handleExtract leaves it for the page results of a PDF: on the
\* review of the articles, their lookups pending
InitEdit ==
    /\ TransferInit
    /\ RestInit
    /\ MergeIdle
    /\ \E pages \in EditedPages :
           /\ extractRun = [IdleExtract EXCEPT !.total_pages = Len(pages),
                                               !.page = Len(pages),
                                               !.pageResults = pages]
           /\ pagesRequested = [k \in 1 .. Len(pages) |-> k]
           /\ LET pos == mergePageResults(pages).purchase_orders
              IN  IF Len(pos) = 1
                  THEN /\ step = "review"
                       /\ vendor = TextOr(pos[1].supplier_name, "")
                       /\ poNumber = PoNumberText(pos[1])
                       /\ articles = LoadingArticles(pos[1].articles)
                       /\ editablePOs = <<>>
                  ELSE /\ step = "multi-po"
                       /\ vendor = ""
                       /\ poNumber = <<>>
                       /\ articles = <<>>
                       /\ editablePOs = [i \in 1 .. Len(pos) |-> EditableOf(pos[i])]
           /\ extractError = ""
           /\ ExtractOutcome(pages) =
                  [step |-> step, vendor |-> vendor, poNumber |-> poNumber,
                   articles |-> articles, editablePOs |-> editablePOs,
                   extractError |-> extractError,
                   lookups |-> ExtractOutcome(pages).lookups]
           /\ requests = SetToBag(ExtractOutcome(pages).lookups)
    /\ file = TRUE
    /\ extracting = FALSE
    /\ extractingRef = FALSE
    /\ extractionProgress = NoProgress
    /\ inwardMounted = TRUE
    /\ settersAfterUnmount = FALSE
    /\ submitting = FALSE
    /\ submitError = ""
    /\ multiSubmitProgress = 0
    /\ submitRun = IdleSubmit
    /\ createLog = <<>>

notInward == <<transferVars, mergeVars, restVars>>

NextEdit ==
    \/ (\E index \in 0 .. MaxArticles - 1 : removeArticle(index)) /\ UNCHANGED notInward
    \/ addArticle /\ UNCHANGED notInward
    \/ (\E index \in 0 .. MaxPOs - 1, artIdx \in 0 .. MaxArticles - 1 :
            removeMultiPOArticle(index, artIdx)) /\ UNCHANGED notInward
    \/ (\E index \in 0 .. MaxPOs - 1 : addMultiPOArticle(index)) /\ UNCHANGED notInward
    \/ (\E index \in 0 .. Len(editablePOs) - 1 : removeEditablePO(index))
           /\ UNCHANGED notInward
    \/ (\E r \in BagToSet(requests), sku_id \in SkuIds \cup {0} : SkuResolved(r, sku_id))
           /\ UNCHANGED <<notInward, submitVars>>
    \/ (\E r \in BagToSet(requests) : SkuRejected(r))
           /\ UNCHANGED <<notInward, submitVars>>

SpecEdit == InitEdit /\ [][NextEdit]_vars

----------------------------------------------------------------------------
(* Claims about late lookup results                                        *)

\* the item description lookup r was called with: that of the article
\* handleExtract made at its index
LookedUp(r) ==
    LET made == ExtractOutcome(extractRun.pageResults)
    IN  IF r.po = NoIndex THEN made.articles[r.art + 1].item_description
        ELSE made.editablePOs[r.po + 1].articles[r.art + 1].item_description

\* the articles of the page and of the page after the step, PO by PO (the
\* single form first)
ArticlesNow == <<articles>> \o [i \in 1 .. Len(editablePOs) |-> editablePOs[i].articles]
ArticlesNext == <<articles'>> \o [i \in 1 .. Len(editablePOs') |-> editablePOs'[i].articles]

\* the step writes the result of lookup r to no article but one of the
\* description that was looked up
WrittenToLookedUp(r) ==
    \A i \in 1 .. Len(ArticlesNow) :
        \A k \in 1 .. Len(ArticlesNow[i]) :
            ArticlesNext[i][k] # ArticlesNow[i][k] =>
                ArticlesNow[i][k].item_description = LookedUp(r)

\* C27: a SKU lookup result is applied only to the article whose description
\* was looked up: when articles or POs are removed (or removed and added)
\* while the lookup is in flight, the late result is applied to that same
\* article or dropped, never written to another article at the same index.
C27_LateResultToSameArticle ==
    [][\A r \in BagToSet(requests) :
           ((\E sku_id \in SkuIds \cup {0} : SkuResolved(r, sku_id)) \/ SkuRejected(r))
               => WrittenToLookedUp(r)]_vars

\* an article holds a SKU though the lookup of its description is pending
\* yet: the result of another article's lookup was written to it
C27_ResultOnOtherArticle ==
    \E r \in BagToSet(requests) :
        /\ r.kind = "sku" /\ r.po = NoIndex
        /\ \E k \in 1 .. Len(articles) :
               /\ articles[k].item_description = LookedUp(r)
               /\ articles[k].skuStatus = "resolved"

\* the result of a lookup whose article was removed, no article being at
\* its index any more, was dropped
C27_ResultDropped ==
    /\ step = "review" /\ Len(articles) = 1 /\ BagCardinality(requests) = 0
    /\ articles[1].skuStatus = "loading"

----------------------------------------------------------------------------
(* Claims about overlapping requests of the transfer-in view               *)

\* the confirm-receipt requests in flight for the transfer of the id
ConfirmsOf(id) ==
    {r \in BagToSet(inflight) : r.kind = "confirm" /\ r.body.transfer_out_id = id}

\* at most one confirm-receipt request of a transfer is in flight
OneConfirmInFlight ==
    \A r \in BagToSet(inflight) :
        r.kind = "confirm" =>
            /\ CopiesIn(r, inflight) = 1
            /\ ConfirmsOf(r.body.transfer_out_id) = {r}

\* after a confirm-receipt request has succeeded, and until the page is
\* left, the confirm action is not offered and none is in flight
NoConfirmAfterSuccess ==
    (mounted /\ navScheduled) =>
        /\ ~ConfirmEnabled
        /\ \A r \in BagToSet(inflight) : r.kind # "confirm"

\* C28: for one loaded transfer at most one confirm-receipt request is in
\* flight at any time, and once a confirm-receipt request has succeeded the
\* confirm action cannot be triggered again before the page navigates away,
\* so that at most one transfer-in receipt is created for the transfer.
C28_OneReceiptPerTransfer == OneConfirmInFlight /\ NoConfirmAfterSuccess

\* a second confirm-receipt request of the transfer is in flight after the
\* first one succeeded, the page not yet left
C28_SecondConfirmSent ==
    /\ mounted /\ navScheduled /\ transferData # Null
    /\ ConfirmsOf(transferData.id) # {}

\* two confirm-receipt requests in flight at once
C28_TwoConfirmsInFlight ==
    \E r \in BagToSet(inflight) :
        r.kind = "confirm" /\ (CopiesIn(r, inflight) > 1
                                  \/ ConfirmsOf(r.body.transfer_out_id) # {r})

----------------------------------------------------------------------------
(* TransferInPage: lookups by the Enter key and by a scanned QR code       *)

\* the lookups of a session
MaxLookups == 3

\* what the scanner may decode: a transfer number as raw text, or the JSON
\* text of an object holding it as transfer_no
DecodedTexts ==
    {[json |-> FALSE, text |-> no] : no \in TransferInputs}
        \cup {[json |-> TRUE, text |-> no] : no \in TransferInputs}

\* the number handleTransferQRScan takes of the decoded text: transfer_no of
\* the parsed object if it has one (an empty one is falsy), else the text
\* itself, which for JSON is the text of the object
ScannedNumber(decoded) ==
    IF decoded.json /\ decoded.text = <<>> THEN <<"{", "}">> ELSE decoded.text

\* loadTransferDetails(transferNo) is called: the lookup is on record
Requested(transferNo) ==
    IF Trim(transferNo) = <<>> THEN UNCHANGED lookups
    ELSE /\ Len(lookups) < MaxLookups
         /\ lookups' = Append(lookups, [no |-> transferNo, outcome |-> "pending"])

\* the first pending lookup of the number ends with the outcome
Ended(no, outcome) ==
    LET k == CHOOSE j \in 1 .. Len(lookups) :
                 /\ lookups[j] = [no |-> no, outcome |-> "pending"]
                 /\ \A i \in 1 .. (j - 1) : lookups[i] # lookups[j]
    IN  lookups' = [lookups EXCEPT ![k].outcome = outcome]

\* the input of the transfer number field
setTransferNumber(text) ==
    /\ mounted
    /\ transferNumber # text
    /\ transferNumber' = text
    /\ UNCHANGED <<transferVars, lookups>>

\* handleSearch() by the Enter key in the field, which loading does not guard
handleSearch ==
    /\ loadTransferDetails(transferNumber)
    /\ Requested(transferNumber)
    /\ UNCHANGED transferNumber

\* handleTransferQRScan(decodedText)
handleTransferQRScan(decoded) ==
    /\ transferNumber' = ScannedNumber(decoded)
    /\ loadTransferDetails(ScannedNumber(decoded))
    /\ Requested(ScannedNumber(decoded))

\* the lookup resolves, or rejects
LookupResolved(r) == LoadResolved(r) /\ Ended(r.no, "resolved") /\ UNCHANGED transferNumber
LookupRejected(r) == LoadRejected(r) /\ Ended(r.no, "rejected") /\ UNCHANGED transferNumber

notTransfer == <<mergeVars, inwardVars, scannerVars, persistVars, authVars, labelVars>>

InitLookups == TransferInit /\ MergeIdle /\ InwardInit /\ RestInit

NextLookups ==
    \/ (\E text \in TransferInputs : setTransferNumber(text)) /\ UNCHANGED notTransfer
    \/ handleSearch /\ UNCHANGED notTransfer
    \/ (\E decoded \in DecodedTexts : handleTransferQRScan(decoded)) /\ UNCHANGED notTransfer
    \/ (\E r \in BagToSet(inflight) : LookupResolved(r)) /\ UNCHANGED notTransfer
    \/ (\E r \in BagToSet(inflight) : LookupRejected(r)) /\ UNCHANGED notTransfer

SpecLookups == InitLookups /\ [][NextLookups]_vars

----------------------------------------------------------------------------
(* Claims about overlapping lookups                                        *)

\* two lookups or more were requested and all of them have resolved (of
\* lookups that did not overlap the one requested last resolves last)
AllResolved ==
    /\ Len(lookups) >= 2
    /\ \A k \in 1 .. Len(lookups) : lookups[k].outcome = "resolved"

\* the transfer and the maps as the lookup of the number initialises them
LoadedAs(no) ==
    /\ transferData = KnownTransfer(no)
    /\ boxesMatchMap = [id \in {transferData.boxes[j].id : j \in 1 .. Len(transferData.boxes)}
                            |-> FALSE]
    /\ linesMatchMap = [i \in 0 .. (Len(transferData.lines) - 1) |-> FALSE]

\* the busy flag is false only when no lookup is in flight
LoadingWhileInFlight ==
    (mounted /\ \E r \in BagToSet(inflight) : r.kind = "load") => loading

\* C30: when two transfer lookups overlap (the second started by the Enter
\* key or a QR scan while the first is in flight), then after both have
\* resolved, in whichever order, the loaded transfer and its freshly
\* initialised box and line maps are those of the lookup requested last, and
\* the loading flag is false only when no lookup is in flight.
C30_LastRequestedLookupWins ==
    /\ AllResolved => LoadedAs(lookups[Len(lookups)].no)
    /\ LoadingWhileInFlight

\* the lookup requested first resolved last, and the transfer shown is its
C30_FirstRequestedShown ==
    /\ AllResolved /\ Len(lookups) = 2 /\ lookups[1].no # lookups[2].no
    /\ LoadedAs(lookups[1].no)

\* the busy flag is down while a lookup is in flight
C30_IdleWhileInFlight == ~LoadingWhileInFlight

----------------------------------------------------------------------------
(* Claims about retries of a batch submission                              *)

\* the createInward request of entry k of the log has succeeded: the loop of
\* its run went on to send the next PO
Persisted(k) ==
    \E m \in 1 .. Len(createLog) :
        createLog[m].run = createLog[k].run /\ createLog[m].i = createLog[k].i + 1

\* C29: across a multi-PO submission that fails at PO i and any number of
\* retries of the submit action each editable PO is persisted at most once:
\* a PO whose create request has succeeded is not sent to createInward again.
C29_PersistedPONotResent ==
    \A k, m \in 1 .. Len(createLog) :
        (Persisted(k) /\ createLog[m].run > createLog[k].run) =>
            createLog[m].payload.po_number # createLog[k].payload.po_number

\* a retry after a failure at the second PO has sent the first PO again,
\* under another transaction number
C29_FirstPOSentTwice ==
    /\ Len(createLog) = 3
    /\ createLog[1].run = 1 /\ createLog[2].run = 1 /\ createLog[3].run = 2
    /\ createLog[3].payload.po_number = createLog[1].payload.po_number
    /\ createLog[3].payload.transaction_no # createLog[1].payload.transaction_no

\* a retry after a failure at the first PO sends nothing a second time that
\* was persisted
C29_RetryAfterFirstFailed ==
    /\ Len(createLog) = 2 /\ createLog[1].i = 0 /\ createLog[2].i = 0
    /\ createLog[2].run = 2 /\ submitRun.pc = "create"

====
